---- MODULE Spec2Model ----
(***************************************************************************)
(* Tienda online: the product index (a binary search tree, bst.py), the    *)
(* order cache (a singly linked list, lst.py) and the request handlers of  *)
(* main.py that keep both next to the MySQL store.                          *)
(***************************************************************************)
EXTENDS Integers, Sequences, FiniteSets, TLC

VARIABLES
    arbol_productos,   \* main.py:61  the process-wide ArbolProductosBST
    insertados,        \* the products handed to insertar since the tree was last emptied
    productos_db,      \* the rows of the MySQL table productos, in primary-key order
    productos_json,    \* the file productos.json
    resp,              \* the response of the last request
    lista_pedidos,     \* main.py:65  the process-wide ListaEnlazadaPedidos
    pedidos_db,        \* the rows of the MySQL table pedidos, in primary-key order
    pedido_productos,  \* the rows of the MySQL table pedido_productos, in insertion order
    ultimo_pedido_id,  \* the AUTO_INCREMENT counter of the table pedidos
    pedidos_json,      \* the file pedidos.json
    en_curso           \* main.py:459  the PUT /pedidos requests waiting at "await request.json()"

varsPedidos ==
    <<lista_pedidos, pedidos_db, pedido_productos, ultimo_pedido_id, pedidos_json, en_curso>>
vars == <<arbol_productos, insertados, productos_db, productos_json, resp, varsPedidos>>

(***************************************************************************)
(* Bounds and input sets                                                   *)
(***************************************************************************)
MaxArbol == 4                       \* nodes the tree may hold
MaxProductos == 2                   \* rows the table productos may hold
IdsBST == {1, 2, 5, 8}              \* identifiers given to insertar
Nombres == {"A", "B"}               \* product names

(***************************************************************************)
(* bst.py                                                                  *)
(***************************************************************************)
Nil == 0                            \* the None reference (no node)

Decimal(n) == [t |-> "Decimal", v |-> n]
Float(x) == [t |-> "float", v |-> x.v]

Producto(product_id, nombre, precio, descripcion, stock) ==
    [product_id |-> product_id, nombre |-> nombre, precio |-> precio,
     descripcion |-> descripcion, stock |-> stock, cantidad |-> 0]

NodoBST(producto) == [producto |-> producto, izquierda |-> Nil, derecha |-> Nil]

ArbolVacio == [raiz |-> Nil, nodos |-> <<>>]

RECURSIVE Mut_insertar_izq(_, _, _)
Mut_insertar_izq(nodos, nodo, producto) ==
    IF producto.product_id <= nodos[nodo].producto.product_id
    THEN IF nodos[nodo].izquierda = Nil
         THEN [Append(nodos, NodoBST(producto)) EXCEPT ![nodo].izquierda = Len(nodos) + 1]
         ELSE Mut_insertar_izq(nodos, nodos[nodo].izquierda, producto)
    ELSE IF nodos[nodo].derecha = Nil
         THEN [Append(nodos, NodoBST(producto)) EXCEPT ![nodo].derecha = Len(nodos) + 1]
         ELSE Mut_insertar_izq(nodos, nodos[nodo].derecha, producto)

RECURSIVE _insertar(_, _, _)
_insertar(nodos, nodo, producto) ==
    IF producto.product_id < nodos[nodo].producto.product_id
    THEN IF nodos[nodo].izquierda = Nil
         THEN [Append(nodos, NodoBST(producto)) EXCEPT ![nodo].izquierda = Len(nodos) + 1]
         ELSE _insertar(nodos, nodos[nodo].izquierda, producto)
    ELSE IF nodos[nodo].derecha = Nil
         THEN [Append(nodos, NodoBST(producto)) EXCEPT ![nodo].derecha = Len(nodos) + 1]
         ELSE _insertar(nodos, nodos[nodo].derecha, producto)

insertar(arbol, producto) ==
    IF arbol.raiz = Nil
    THEN [raiz |-> Len(arbol.nodos) + 1, nodos |-> Append(arbol.nodos, NodoBST(producto))]
    ELSE [arbol EXCEPT !.nodos = _insertar(arbol.nodos, arbol.raiz, producto)]

\* None is modelled by NoProducto: a record no product equals.
NoProducto == Producto(Nil, "", Decimal(0), "", 0)

RECURSIVE Mut_buscar_ultimo(_, _, _)
Mut_buscar_ultimo(nodos, nodo, product_id) ==
    IF nodo = Nil THEN NoProducto
    ELSE IF product_id = nodos[nodo].producto.product_id
    THEN LET otro == Mut_buscar_ultimo(nodos, nodos[nodo].derecha, product_id)
         IN  IF otro # NoProducto THEN otro ELSE nodos[nodo].producto
    ELSE IF product_id < nodos[nodo].producto.product_id
         THEN Mut_buscar_ultimo(nodos, nodos[nodo].izquierda, product_id)
         ELSE Mut_buscar_ultimo(nodos, nodos[nodo].derecha, product_id)

RECURSIVE Mut_buscar_invertido(_, _, _)
Mut_buscar_invertido(nodos, nodo, product_id) ==
    IF nodo = Nil THEN NoProducto
    ELSE IF product_id = nodos[nodo].producto.product_id THEN nodos[nodo].producto
    ELSE IF product_id < nodos[nodo].producto.product_id
         THEN Mut_buscar_invertido(nodos, nodos[nodo].derecha, product_id)
         ELSE Mut_buscar_invertido(nodos, nodos[nodo].izquierda, product_id)

RECURSIVE _buscar(_, _, _)
_buscar(nodos, nodo, product_id) ==
    IF nodo = Nil THEN NoProducto
    ELSE IF product_id = nodos[nodo].producto.product_id THEN nodos[nodo].producto
    ELSE IF product_id < nodos[nodo].producto.product_id
         THEN _buscar(nodos, nodos[nodo].izquierda, product_id)
         ELSE _buscar(nodos, nodos[nodo].derecha, product_id)

buscar(arbol, product_id) == _buscar(arbol.nodos, arbol.raiz, product_id)

RegistroProducto(producto) ==
    [product_id |-> producto.product_id, nombre |-> producto.nombre,
     precio |-> producto.precio, descripcion |-> producto.descripcion,
     stock |-> producto.stock]

RECURSIVE Mut_serializar_preorden(_, _)
Mut_serializar_preorden(nodos, nodo) ==
    IF nodo = Nil THEN <<>>
    ELSE LET izq == Mut_serializar_preorden(nodos, nodos[nodo].izquierda)
             der == Mut_serializar_preorden(nodos, nodos[nodo].derecha)
             actual == <<RegistroProducto(nodos[nodo].producto)>>
         IN  actual \o izq \o der

RECURSIVE serializar_arbol_productos(_, _)
serializar_arbol_productos(nodos, nodo) ==
    IF nodo = Nil THEN <<>>
    ELSE LET izq == serializar_arbol_productos(nodos, nodos[nodo].izquierda)
             der == serializar_arbol_productos(nodos, nodos[nodo].derecha)
             actual == <<RegistroProducto(nodos[nodo].producto)>>
         IN  izq \o actual \o der

(***************************************************************************)
(* The tree on its own: insertar and the emptying of the tree, with any    *)
(* identifiers (repeated ones included).                                    *)
(***************************************************************************)
SinRespuesta == [op |-> "", status |-> 0, arg |-> Nil, cuerpo |-> [message |-> ""], sql |-> 0]
NoArchivo == [existe |-> FALSE, datos |-> <<>>]

ListaVacia == [cabeza |-> Nil, nodos |-> <<>>]

SinPedidos ==
    /\ lista_pedidos = ListaVacia
    /\ pedidos_db = <<>>
    /\ pedido_productos = <<>>
    /\ ultimo_pedido_id = 0
    /\ pedidos_json = NoArchivo
    /\ en_curso = {}

InitBST ==
    /\ arbol_productos = ArbolVacio
    /\ insertados = <<>>
    /\ productos_db = <<>>
    /\ productos_json = NoArchivo
    /\ resp = SinRespuesta
    /\ SinPedidos

BSTInsertar ==
    \E id \in IdsBST, nombre \in Nombres :
        LET producto == Producto(id, nombre, Decimal(10), "d", 1) IN
        /\ Len(arbol_productos.nodos) < MaxArbol
        /\ arbol_productos' = insertar(arbol_productos, producto)
        /\ insertados' = Append(insertados, producto)
        /\ UNCHANGED <<varsPedidos, productos_db, productos_json, resp>>

BSTLimpiar ==
    /\ arbol_productos.raiz # Nil
    /\ arbol_productos' = ArbolVacio
    /\ insertados' = <<>>
    /\ UNCHANGED <<varsPedidos, productos_db, productos_json, resp>>

NextBST == BSTInsertar \/ BSTLimpiar

SpecBST == InitBST /\ [][NextBST]_vars

(***************************************************************************)
(* Properties of the tree (checked under SpecBST)                          *)
(***************************************************************************)
Ids(seq) == [i \in 1..Len(seq) |-> seq[i].product_id]
Veces(seq, x) == Cardinality({i \in 1..Len(seq) : seq[i] = x})
Registros(seq) == [i \in 1..Len(seq) |-> RegistroProducto(seq[i])]
Ascendente == serializar_arbol_productos(arbol_productos.nodos, arbol_productos.raiz)

RECURSIVE Claves(_, _)
Claves(nodos, nodo) ==
    IF nodo = Nil THEN {}
    ELSE {nodos[nodo].producto.product_id}
         \cup Claves(nodos, nodos[nodo].izquierda)
         \cup Claves(nodos, nodos[nodo].derecha)

\* C8: for every sequence of inserted products (repeated identifiers
\* included) the in-order serialization yields every inserted product, with
\* the identifiers in non-decreasing order; inserting 5, 2, 8, 1 yields
\* 1, 2, 5, 8.
C8_OrdenAscendente ==
    LET asc == Ascendente
        ins == Registros(insertados)
    IN  /\ \A i, j \in 1..Len(asc) : i < j => asc[i].product_id <= asc[j].product_id
        /\ Len(asc) = Len(ins)
        /\ \A k \in 1..Len(ins) : Veces(asc, ins[k]) = Veces(ins, ins[k])
        /\ Ids(insertados) = <<5, 2, 8, 1>> => Ids(asc) = <<1, 2, 5, 8>>

C8_Witness ==
    /\ Ids(insertados) = <<5, 2, 8, 1>>
    /\ Ids(Ascendente) = <<1, 2, 5, 8>>

\* C9: since the tree was last emptied, buscar finds a product with the
\* same identifier for every inserted product, and reports None for every
\* identifier that was not inserted.
C9_BusquedaCorrecta ==
    /\ \A k \in 1..Len(insertados) :
           buscar(arbol_productos, insertados[k].product_id).product_id
               = insertados[k].product_id
    /\ \A id \in 1..9 :
           (\A k \in 1..Len(insertados) : insertados[k].product_id # id)
               => buscar(arbol_productos, id) = NoProducto

C9_Witness ==
    /\ Len(insertados) = 4
    /\ \E i, j \in 1..4 : i # j /\ insertados[i].product_id = insertados[j].product_id
    /\ \E n \in 1..Len(arbol_productos.nodos) :
           /\ arbol_productos.nodos[n].izquierda # Nil
           /\ arbol_productos.nodos[n].derecha # Nil
    /\ buscar(arbol_productos, 1) = NoProducto
    /\ buscar(arbol_productos, 8).product_id = 8

\* C10: in every state of the tree, every node has only smaller keys in its
\* left subtree and only greater-or-equal keys in its right subtree.
C10_InvarianteBST ==
    \A n \in 1..Len(arbol_productos.nodos) :
        LET nodo == arbol_productos.nodos[n] IN
        /\ \A k \in Claves(arbol_productos.nodos, nodo.izquierda) :
               k < nodo.producto.product_id
        /\ \A k \in Claves(arbol_productos.nodos, nodo.derecha) :
               k >= nodo.producto.product_id

C10_Witness ==
    /\ Len(arbol_productos.nodos) = 4
    /\ LET raiz == arbol_productos.nodos[arbol_productos.raiz] IN
       /\ raiz.izquierda # Nil
       /\ raiz.producto.product_id \in Claves(arbol_productos.nodos, raiz.derecha)
       /\ Cardinality(Claves(arbol_productos.nodos, raiz.derecha)) = 2

\* The nodes of the subtree under a node.
RECURSIVE NodosBajo(_, _)
NodosBajo(nodos, nodo) ==
    IF nodo = Nil THEN {}
    ELSE {nodo} \cup NodosBajo(nodos, nodos[nodo].izquierda)
                \cup NodosBajo(nodos, nodos[nodo].derecha)

\* The first product inserted with the identifier of the i-th.
EsPrimero(i) ==
    \A h \in 1..(i - 1) : insertados[h].product_id # insertados[i].product_id

\* C29: of the products inserted with one identifier since the tree was
\* emptied, every later one is a node of the right subtree of the first,
\* buscar returns the first (and so never a later one that differs from it),
\* and the in-order serialization has all of them.
C29_DuplicadosALaDerecha ==
    /\ Len(arbol_productos.nodos) = Len(insertados)
    /\ \A i \in 1..Len(insertados) :
           /\ arbol_productos.nodos[i].producto = insertados[i]
           /\ EsPrimero(i) =>
                  /\ buscar(arbol_productos, insertados[i].product_id) = insertados[i]
                  /\ \A j \in (i + 1)..Len(insertados) :
                         insertados[j].product_id = insertados[i].product_id =>
                             /\ j \in NodosBajo(arbol_productos.nodos,
                                                arbol_productos.nodos[i].derecha)
                             /\ Veces(Ascendente, RegistroProducto(insertados[j]))
                                    = Veces(Registros(insertados), RegistroProducto(insertados[j]))

\* 2, then 5 three times: the first 5 is named "A", the later ones "B", and
\* buscar(5) returns the one named "A".
C29_Witness ==
    /\ Ids(insertados) = <<2, 5, 5, 5>>
    /\ insertados[2].nombre = "A" /\ insertados[3].nombre = "B" /\ insertados[4].nombre = "B"
    /\ buscar(arbol_productos, 5).nombre = "A"
    /\ Ids(Ascendente) = <<2, 5, 5, 5>>

(***************************************************************************)
(* main.py, products: get_product_bst, create_product, export_data and     *)
(* import_data next to the table productos and the file productos.json.   *)
(***************************************************************************)
None == -1                          \* JSON null / Python None in a numeric field
NoneNum == [t |-> "None", v |-> 0]  \* JSON null in place of a price

ClavesProducto == {"nombre", "precio", "descripcion", "stock"}

CuerpoProducto(claves, nombre, precio, descripcion, stock) ==
    [claves |-> claves, nombre |-> nombre, precio |-> precio,
     descripcion |-> descripcion, stock |-> stock]

\* Request bodies of POST /products: the valid ones, and one for each way
\* line 168 or the subscripts of lines 163-166 reject a body.
CuerposProducto ==
    {CuerpoProducto(ClavesProducto, n, [t |-> "float", v |-> pr], "d", 3) :
        n \in Nombres, pr \in {5, 10}}
    \cup {CuerpoProducto(ClavesProducto \ {"descripcion"}, "A", [t |-> "float", v |-> 5], "", 3),
          CuerpoProducto(ClavesProducto, "", [t |-> "float", v |-> 5], "d", 3),
          CuerpoProducto(ClavesProducto, "A", [t |-> "float", v |-> 5], "", 3),
          CuerpoProducto(ClavesProducto, "A", NoneNum, "d", 3),
          CuerpoProducto(ClavesProducto, "A", [t |-> "float", v |-> 5], "d", None)}

\* What MySQL keeps of an inserted product: the price as a DECIMAL.
FilaProducto(producto_id, nombre, precio, descripcion, stock) ==
    [producto_id |-> producto_id, nombre |-> nombre, precio |-> Decimal(precio.v),
     descripcion |-> descripcion, stock |-> stock]

\* The for loops of lines 108-116, 672-681 and 712-721.
RECURSIVE InsertarTodos(_, _)
InsertarTodos(arbol, productos) ==
    IF productos = <<>> THEN arbol
    ELSE InsertarTodos(insertar(arbol, Head(productos)), Tail(productos))

\* A response, with the number of SQL statements the handler executed.
Respuesta(op, status, arg, cuerpo, sql) ==
    [op |-> op, status |-> status, arg |-> arg, cuerpo |-> cuerpo, sql |-> sql]

Mut_ArbolRecargado_vacio(arbol, filas) ==
    InsertarTodos(ArbolVacio,
        [i \in 1..Len(filas) |->
            Producto(filas[i].producto_id, filas[i].nombre, filas[i].precio,
                     filas[i].descripcion, filas[i].stock)])

\* The tree get_product_bst searches: every row of the table inserted into
\* the resident tree, which is not emptied first.
ArbolRecargado(arbol, filas) ==
    InsertarTodos(arbol,
        [i \in 1..Len(filas) |->
            Producto(filas[i].producto_id, filas[i].nombre, filas[i].precio,
                     filas[i].descripcion, filas[i].stock)])

get_product_bst(product_id) ==
    LET arbol == ArbolRecargado(arbol_productos, productos_db)
        producto_buscado == buscar(arbol, product_id)
    IN  /\ Len(arbol.nodos) <= MaxArbol
        /\ arbol_productos' = arbol
        /\ resp' = IF producto_buscado = NoProducto
                   THEN Respuesta("get_product_bst", 404, product_id,
                                  [message |-> "Producto no encontrado en BST"], 1)
                   ELSE Respuesta("get_product_bst", 200, product_id,
                                  [product_id |-> producto_buscado.product_id,
                                   nombre |-> producto_buscado.nombre,
                                   precio |-> Float(producto_buscado.precio),
                                   descripcion |-> producto_buscado.descripcion,
                                   stock |-> producto_buscado.stock], 1)
        /\ UNCHANGED <<varsPedidos, productos_db, productos_json, insertados>>

FaltanDatosProducto(body) ==
    body.stock = None \/ body.nombre = "" \/ body.precio = NoneNum \/ body.descripcion = ""

Mut_create_product_recarga(body) ==
    \/ /\ body.claves # ClavesProducto
       /\ resp' = Respuesta("create_product", 500, Nil, [message |-> "KeyError"], 0)
       /\ UNCHANGED <<varsPedidos, productos_db, arbol_productos, productos_json, insertados>>
    \/ /\ body.claves = ClavesProducto
       /\ FaltanDatosProducto(body)
       /\ resp' = Respuesta("create_product", 400, Nil,
                            [message |-> "Faltan datos obligatorios"], 0)
       /\ UNCHANGED <<varsPedidos, productos_db, arbol_productos, productos_json, insertados>>
    \/ /\ body.claves = ClavesProducto
       /\ ~FaltanDatosProducto(body)
       /\ Len(productos_db) < MaxProductos
       /\ Len(arbol_productos.nodos) < MaxArbol
       /\ LET lastrowid == Len(productos_db) + 1
              filas == Append(productos_db,
                              FilaProducto(lastrowid, body.nombre, body.precio,
                                           body.descripcion, body.stock))
          IN  /\ productos_db' = filas
              /\ arbol_productos' = ArbolRecargado(ArbolVacio, filas)
       /\ resp' = Respuesta("create_product", 200, Nil,
                            [message |-> "Producto creado exitosamente"], 1)
       /\ UNCHANGED <<varsPedidos, productos_json, insertados>>

Mut_create_product_con_id(body) ==
    \/ /\ body.claves # ClavesProducto
       /\ resp' = Respuesta("create_product", 500, Nil, [message |-> "KeyError"], 0)
       /\ UNCHANGED <<varsPedidos, productos_db, arbol_productos, productos_json, insertados>>
    \/ /\ body.claves = ClavesProducto
       /\ FaltanDatosProducto(body)
       /\ resp' = Respuesta("create_product", 400, Nil,
                            [message |-> "Faltan datos obligatorios"], 0)
       /\ UNCHANGED <<varsPedidos, productos_db, arbol_productos, productos_json, insertados>>
    \/ /\ body.claves = ClavesProducto
       /\ ~FaltanDatosProducto(body)
       /\ Len(productos_db) < MaxProductos
       /\ Len(arbol_productos.nodos) < MaxArbol
       /\ LET lastrowid == Len(productos_db) + 1
              filas == Append(productos_db,
                              FilaProducto(lastrowid, body.nombre, body.precio,
                                           body.descripcion, body.stock))
              nuevo_producto == Producto(lastrowid, body.nombre, body.precio,
                                         body.descripcion, body.stock)
          IN  /\ productos_db' = filas
              /\ arbol_productos' = insertar(arbol_productos, nuevo_producto)
              /\ resp' = Respuesta("create_product", 200, Nil,
                                   [message |-> "Producto creado exitosamente",
                                    product_id |-> lastrowid], 1)
       /\ UNCHANGED <<varsPedidos, productos_json, insertados>>

create_product(body) ==
    \/ /\ body.claves # ClavesProducto          \* body["..."] raises KeyError
       /\ resp' = Respuesta("create_product", 500, Nil, [message |-> "KeyError"], 0)
       /\ UNCHANGED <<varsPedidos, productos_db, arbol_productos, productos_json, insertados>>
    \/ /\ body.claves = ClavesProducto
       /\ FaltanDatosProducto(body)
       /\ resp' = Respuesta("create_product", 400, Nil,
                            [message |-> "Faltan datos obligatorios"], 0)
       /\ UNCHANGED <<varsPedidos, productos_db, arbol_productos, productos_json, insertados>>
    \/ /\ body.claves = ClavesProducto
       /\ ~FaltanDatosProducto(body)
       /\ Len(productos_db) < MaxProductos
       /\ Len(arbol_productos.nodos) < MaxArbol
       /\ LET lastrowid == Len(productos_db) + 1
              nuevo_producto == Producto(lastrowid, body.nombre, body.precio,
                                         body.descripcion, body.stock)
          IN  /\ productos_db' = Append(productos_db,
                     FilaProducto(lastrowid, body.nombre, body.precio,
                                  body.descripcion, body.stock))
              /\ arbol_productos' = insertar(arbol_productos, nuevo_producto)
       /\ resp' = Respuesta("create_product", 200, Nil,
                            [message |-> "Producto creado exitosamente"], 1)
       /\ UNCHANGED <<varsPedidos, productos_json, insertados>>

Mut_export_data_sin_vaciar ==
    LET arbol == InsertarTodos(arbol_productos,
                     [i \in 1..Len(productos_db) |->
                         Producto(productos_db[i].producto_id, productos_db[i].nombre,
                                  Float(productos_db[i].precio),
                                  productos_db[i].descripcion, productos_db[i].stock)])
        productos_serializados == serializar_arbol_productos(arbol.nodos, arbol.raiz)
    IN  /\ arbol_productos' = arbol
        /\ productos_json' = [existe |-> TRUE, datos |-> productos_serializados]
        /\ resp' = Respuesta("export_data", 200, Nil,
                             [message |-> "Datos exportados del arbol exitosamente"], 1)
        /\ UNCHANGED <<varsPedidos, productos_db, insertados>>

export_data ==
    LET arbol == InsertarTodos(ArbolVacio,
                     [i \in 1..Len(productos_db) |->
                         Producto(productos_db[i].producto_id, productos_db[i].nombre,
                                  Float(productos_db[i].precio),
                                  productos_db[i].descripcion, productos_db[i].stock)])
        productos_serializados == serializar_arbol_productos(arbol.nodos, arbol.raiz)
    IN  /\ arbol_productos' = arbol
        /\ productos_json' = [existe |-> TRUE, datos |-> productos_serializados]
        /\ resp' = Respuesta("export_data", 200, Nil,
                             [message |-> "Datos exportados del arbol exitosamente"], 1)
        /\ UNCHANGED <<varsPedidos, productos_db, insertados>>

Mut_import_data_sin_vaciar ==
    \/ /\ ~productos_json.existe
       /\ resp' = Respuesta("import_data", 500, Nil, [message |-> "FileNotFoundError"], 0)
       /\ UNCHANGED <<varsPedidos, productos_db, arbol_productos, productos_json, insertados>>
    \/ /\ productos_json.existe
       /\ LET productos_data == productos_json.datos IN
          /\ arbol_productos' = InsertarTodos(arbol_productos,
                 [i \in 1..Len(productos_data) |->
                     Producto(productos_data[i].product_id, productos_data[i].nombre,
                              productos_data[i].precio, productos_data[i].descripcion,
                              productos_data[i].stock)])
          /\ resp' = Respuesta("import_data", 200, Nil,
                               [message |-> "Datos importados exitosamente",
                                cantidad |-> Len(productos_data)], 0)
       /\ UNCHANGED <<varsPedidos, productos_db, productos_json, insertados>>

import_data ==
    \/ /\ ~productos_json.existe                 \* open() raises FileNotFoundError
       /\ resp' = Respuesta("import_data", 500, Nil, [message |-> "FileNotFoundError"], 0)
       /\ UNCHANGED <<varsPedidos, productos_db, arbol_productos, productos_json, insertados>>
    \/ /\ productos_json.existe
       /\ LET productos_data == productos_json.datos IN
          /\ arbol_productos' = InsertarTodos(ArbolVacio,
                 [i \in 1..Len(productos_data) |->
                     Producto(productos_data[i].product_id, productos_data[i].nombre,
                              productos_data[i].precio, productos_data[i].descripcion,
                              productos_data[i].stock)])
          /\ resp' = Respuesta("import_data", 200, Nil,
                               [message |-> "Datos importados exitosamente",
                                cantidad |-> Len(productos_data)], 0)
       /\ UNCHANGED <<varsPedidos, productos_db, productos_json, insertados>>

\* productos.json is a file of the working directory: import_data reads
\* whatever it holds, written by export_data or put there from outside.
RegistroExterno(product_id, nombre, precio) ==
    [product_id |-> product_id, nombre |-> nombre,
     precio |-> [t |-> "float", v |-> precio], descripcion |-> "d", stock |-> 3]

ArchivosProductos ==
    {<<RegistroExterno(1, "Z", 99)>>,
     <<RegistroExterno(MaxProductos + 1, "A", 5)>>}

ArchivoProductosExterno ==
    \E datos \in ArchivosProductos :
        /\ productos_json' = [existe |-> TRUE, datos |-> datos]
        /\ UNCHANGED <<varsPedidos, productos_db, arbol_productos, insertados, resp>>

InitCatalogo ==
    /\ arbol_productos = ArbolVacio
    /\ insertados = <<>>
    /\ productos_db = <<>>
    /\ productos_json = NoArchivo
    /\ resp = SinRespuesta
    /\ SinPedidos

GetProductBst == \E product_id \in 1..(MaxProductos + 1) : get_product_bst(product_id)
CreateProduct == \E body \in CuerposProducto : create_product(body)
ExportData == export_data
ImportData == import_data

NextCatalogo ==
    \/ GetProductBst
    \/ CreateProduct
    \/ ExportData
    \/ ImportData
    \/ ArchivoProductosExterno

SpecCatalogo == InitCatalogo /\ [][NextCatalogo]_vars

\* C2: get_product_bst answers from the store as it is at the lookup: 404
\* exactly when the table has no row with the identifier, and otherwise
\* the field values of that row.
C2_LookupConsistente ==
    resp.op = "get_product_bst" =>
        LET filas == {i \in 1..Len(productos_db) : productos_db[i].producto_id = resp.arg}
        IN  /\ (resp.status = 404) <=> (filas = {})
            /\ resp.status = 200 =>
                   \E i \in filas :
                       resp.cuerpo = [product_id |-> productos_db[i].producto_id,
                                      nombre |-> productos_db[i].nombre,
                                      precio |-> Float(productos_db[i].precio),
                                      descripcion |-> productos_db[i].descripcion,
                                      stock |-> productos_db[i].stock]

(***************************************************************************)
(* lst.py: the linked list.  lista.nodos maps each live NodoPedido (a      *)
(* reference, a positive number) to its fields; a node nothing refers to   *)
(* any more is dropped from it, as the garbage collector does.              *)
(***************************************************************************)
NoneStr == "<None>"                       \* None in place of a string
NoneProductos == <<[tipo |-> "None"]>>    \* None in place of a list of products

NodoPedido(pedido_id, cliente, fecha, productos) ==
    [pedido_id |-> pedido_id, cliente |-> cliente, fecha |-> fecha,
     productos |-> productos, siguiente |-> Nil]

NuevaReferencia(nodos) ==
    CHOOSE n \in 1..(Cardinality(DOMAIN nodos) + 1) :
        /\ n \notin DOMAIN nodos
        /\ \A m \in 1..(n - 1) : m \in DOMAIN nodos

SinNodo(nodos, n) == [m \in DOMAIN nodos \ {n} |-> nodos[m]]

RECURSIVE UltimoNodo(_, _)
UltimoNodo(nodos, actual) ==
    IF nodos[actual].siguiente = Nil THEN actual
    ELSE UltimoNodo(nodos, nodos[actual].siguiente)

Mut_agregar_pedido_al_inicio(lista, pedido_id, cliente, fecha, productos) ==
    LET nuevo_nodo == NuevaReferencia(lista.nodos)
        nodo == [NodoPedido(pedido_id, cliente, fecha, productos) EXCEPT
                    !.siguiente = lista.cabeza]
    IN  [cabeza |-> nuevo_nodo, nodos |-> (nuevo_nodo :> nodo) @@ lista.nodos]

Mut_agregar_pedido_ciclo(lista, pedido_id, cliente, fecha, productos) ==
    LET nuevo_nodo == NuevaReferencia(lista.nodos)
        nodo == [NodoPedido(pedido_id, cliente, fecha, productos) EXCEPT
                    !.siguiente = nuevo_nodo]
        nodos == (nuevo_nodo :> nodo) @@ lista.nodos
    IN  IF lista.cabeza = Nil
        THEN [cabeza |-> nuevo_nodo, nodos |-> nodos]
        ELSE [cabeza |-> lista.cabeza,
              nodos |-> [nodos EXCEPT ![UltimoNodo(lista.nodos, lista.cabeza)].siguiente = nuevo_nodo]]

agregar_pedido(lista, pedido_id, cliente, fecha, productos) ==
    LET nuevo_nodo == NuevaReferencia(lista.nodos)
        nodos == (nuevo_nodo :> NodoPedido(pedido_id, cliente, fecha, productos)) @@ lista.nodos
    IN  IF lista.cabeza = Nil
        THEN [cabeza |-> nuevo_nodo, nodos |-> nodos]
        ELSE [cabeza |-> lista.cabeza,
              nodos |-> [nodos EXCEPT ![UltimoNodo(lista.nodos, lista.cabeza)].siguiente = nuevo_nodo]]

RECURSIVE buscar_desde(_, _, _)
buscar_desde(nodos, actual, pedido_id) ==
    IF actual = Nil THEN Nil
    ELSE IF nodos[actual].pedido_id = pedido_id THEN actual
    ELSE buscar_desde(nodos, nodos[actual].siguiente, pedido_id)

Mut_buscar_pedido_tras_cabeza(lista, pedido_id) ==
    IF lista.cabeza = Nil THEN Nil
    ELSE buscar_desde(lista.nodos, lista.nodos[lista.cabeza].siguiente, pedido_id)

buscar_pedido(lista, pedido_id) == buscar_desde(lista.nodos, lista.cabeza, pedido_id)

RECURSIVE Mut_eliminar_desde_la_cabeza(_, _, _, _)
Mut_eliminar_desde_la_cabeza(lista, actual, previo, pedido_id) ==
    IF actual = Nil THEN [lista |-> lista, ok |-> FALSE]
    ELSE IF lista.nodos[actual].pedido_id = pedido_id
    THEN [lista |-> [cabeza |-> lista.nodos[lista.cabeza].siguiente,
                     nodos |-> SinNodo(lista.nodos, lista.cabeza)],
          ok |-> TRUE]
    ELSE Mut_eliminar_desde_la_cabeza(lista, lista.nodos[actual].siguiente, actual, pedido_id)

RECURSIVE Mut_eliminar_desde_siempre(_, _, _, _)
Mut_eliminar_desde_siempre(lista, actual, previo, pedido_id) ==
    IF actual = Nil THEN [lista |-> lista, ok |-> TRUE]
    ELSE IF lista.nodos[actual].pedido_id = pedido_id
    THEN LET siguiente == lista.nodos[actual].siguiente IN
         IF previo # Nil
         THEN [lista |-> [cabeza |-> lista.cabeza,
                          nodos |-> SinNodo([lista.nodos EXCEPT ![previo].siguiente = siguiente],
                                            actual)],
               ok |-> TRUE]
         ELSE [lista |-> [cabeza |-> siguiente, nodos |-> SinNodo(lista.nodos, actual)],
               ok |-> TRUE]
    ELSE Mut_eliminar_desde_siempre(lista, lista.nodos[actual].siguiente, actual, pedido_id)

RECURSIVE Mut_eliminar_desde_ultimo(_, _, _, _)
Mut_eliminar_desde_ultimo(lista, actual, previo, pedido_id) ==
    IF actual = Nil THEN [lista |-> lista, ok |-> FALSE]
    ELSE IF /\ lista.nodos[actual].pedido_id = pedido_id
            /\ buscar_desde(lista.nodos, lista.nodos[actual].siguiente, pedido_id) = Nil
    THEN LET siguiente == lista.nodos[actual].siguiente IN
         IF previo # Nil
         THEN [lista |-> [cabeza |-> lista.cabeza,
                          nodos |-> SinNodo([lista.nodos EXCEPT ![previo].siguiente = siguiente],
                                            actual)],
               ok |-> TRUE]
         ELSE [lista |-> [cabeza |-> siguiente, nodos |-> SinNodo(lista.nodos, actual)],
               ok |-> TRUE]
    ELSE Mut_eliminar_desde_ultimo(lista, lista.nodos[actual].siguiente, actual, pedido_id)

RECURSIVE eliminar_desde(_, _, _, _)
eliminar_desde(lista, actual, previo, pedido_id) ==
    IF actual = Nil THEN [lista |-> lista, ok |-> FALSE]
    ELSE IF lista.nodos[actual].pedido_id = pedido_id
    THEN LET siguiente == lista.nodos[actual].siguiente IN
         IF previo # Nil
         THEN [lista |-> [cabeza |-> lista.cabeza,
                          nodos |-> SinNodo([lista.nodos EXCEPT ![previo].siguiente = siguiente],
                                            actual)],
               ok |-> TRUE]
         ELSE [lista |-> [cabeza |-> siguiente, nodos |-> SinNodo(lista.nodos, actual)],
               ok |-> TRUE]
    ELSE eliminar_desde(lista, lista.nodos[actual].siguiente, actual, pedido_id)

eliminar_pedido(lista, pedido_id) == eliminar_desde(lista, lista.cabeza, Nil, pedido_id)

RECURSIVE Mut_listar_desde_con_total(_, _)
Mut_listar_desde_con_total(nodos, actual) ==
    IF actual = Nil THEN <<>>
    ELSE <<[pedido_id |-> nodos[actual].pedido_id, cliente |-> nodos[actual].cliente,
            fecha |-> nodos[actual].fecha, productos |-> nodos[actual].productos,
            total |-> Len(nodos[actual].productos)]>>
         \o Mut_listar_desde_con_total(nodos, nodos[actual].siguiente)

RECURSIVE listar_desde(_, _)
listar_desde(nodos, actual) ==
    IF actual = Nil THEN <<>>
    ELSE <<[pedido_id |-> nodos[actual].pedido_id, cliente |-> nodos[actual].cliente,
            fecha |-> nodos[actual].fecha, productos |-> nodos[actual].productos]>>
         \o listar_desde(nodos, nodos[actual].siguiente)

listar_pedidos(lista) == listar_desde(lista.nodos, lista.cabeza)

\* "if cliente:", "if fecha:": None and the empty string are both false.
Verdadero(texto) == texto # NoneStr /\ texto # ""

Mut_actualizar_pedido_todo(lista, pedido_id, cliente, fecha, productos) ==
    LET actual == buscar_desde(lista.nodos, lista.cabeza, pedido_id) IN
    IF actual = Nil THEN [lista |-> lista, ok |-> FALSE]
    ELSE [lista |->
             [lista EXCEPT
                 !.nodos[actual].cliente = cliente,
                 !.nodos[actual].fecha = fecha,
                 !.nodos[actual].productos = productos],
          ok |-> TRUE]

actualizar_pedido(lista, pedido_id, cliente, fecha, productos) ==
    LET actual == buscar_desde(lista.nodos, lista.cabeza, pedido_id) IN
    IF actual = Nil THEN [lista |-> lista, ok |-> FALSE]
    ELSE [lista |->
             [lista EXCEPT
                 !.nodos[actual].cliente = IF Verdadero(cliente) THEN cliente ELSE @,
                 !.nodos[actual].fecha = IF Verdadero(fecha) THEN fecha ELSE @,
                 !.nodos[actual].productos = IF productos # NoneProductos THEN productos ELSE @],
          ok |-> TRUE]

(***************************************************************************)
(* main.py, orders: the tables pedidos and pedido_productos, the dates,    *)
(* and the line items as the handlers pass them around.                     *)
(***************************************************************************)
MaxPedidos == 2                     \* orders the table pedidos is given

\* datetime.fromisoformat and datetime.isoformat on the dates used here: a
\* date without a time is midnight, and comes back with the time written.
FechasISO == {"2025-12-08", "2025-12-08T00:00:00", "2025-12-09T14:00:00"}

fromisoformat(texto) ==
    CASE texto = "2025-12-08" -> <<2025, 12, 8, 0, 0, 0>>
      [] texto = "2025-12-08T00:00:00" -> <<2025, 12, 8, 0, 0, 0>>
      [] texto = "2025-12-09T14:00:00" -> <<2025, 12, 9, 14, 0, 0>>

isoformat(dt) ==
    CASE dt = <<2025, 12, 8, 0, 0, 0>> -> "2025-12-08T00:00:00"
      [] dt = <<2025, 12, 9, 14, 0, 0>> -> "2025-12-09T14:00:00"

\* A dict of a line item: the keys it has, and their values.
ClavesItem == {"producto_id", "nombre", "precio", "cantidad"}

Dict(claves, producto_id, nombre, precio, cantidad) ==
    [claves |-> claves, producto_id |-> producto_id, nombre |-> nombre,
     precio |-> precio, cantidad |-> cantidad]

ItemPedido(producto_id, cantidad) ==
    Dict({"producto_id", "cantidad"}, producto_id, "", NoneNum, cantidad)
ItemSinCantidad(producto_id) == Dict({"producto_id"}, producto_id, "", NoneNum, None)
ItemSinProducto(cantidad) == Dict({"cantidad"}, None, "", NoneNum, cantidad)
ItemCompleto(producto_id, nombre, precio, cantidad) ==
    Dict(ClavesItem, producto_id, nombre, precio, cantidad)

EsDict(p) == "claves" \in DOMAIN p

\* p.get("producto_id") and p.get("cantidad", 1)
GetProductoId(p) == IF "producto_id" \in p.claves THEN p.producto_id ELSE None
GetCantidad(p) == IF "cantidad" \in p.claves THEN p.cantidad ELSE 1

\* Producto.to_dict
to_dict(producto) ==
    [producto_id |-> producto.product_id, nombre |-> producto.nombre,
     precio |-> Float(producto.precio), cantidad |-> producto.cantidad]

\* A Producto of an order: built with descripcion "" and stock 0, then
\* given its cantidad.
ProductoDePedido(producto_id, nombre, precio, cantidad) ==
    [Producto(producto_id, nombre, Float(precio), "", 0) EXCEPT !.cantidad = cantidad]

\* sum(p.precio * p.cantidad for p in productos): the int 0 of an empty sum,
\* a float otherwise.
RECURSIVE Mut_SumaImportes_sin_cantidad(_)
Mut_SumaImportes_sin_cantidad(productos) ==
    IF productos = <<>> THEN 0
    ELSE Head(productos).precio.v + Mut_SumaImportes_sin_cantidad(Tail(productos))

RECURSIVE SumaImportes(_)
SumaImportes(productos) ==
    IF productos = <<>> THEN 0
    ELSE Head(productos).precio.v * Head(productos).cantidad + SumaImportes(Tail(productos))

Total(productos) ==
    IF productos = <<>> THEN [t |-> "int", v |-> 0]
    ELSE [t |-> "float", v |-> SumaImportes(productos)]

ExistePedido(pedidos, pedido_id) ==
    \E i \in 1..Len(pedidos) : pedidos[i].pedido_id = pedido_id

FilaDePedido(pedidos, pedido_id) ==
    pedidos[CHOOSE i \in 1..Len(pedidos) : pedidos[i].pedido_id = pedido_id]

\* SELECT ... FROM pedido_productos pp JOIN productos p ON ... WHERE pp.pedido_id = %s
JoinProductos(pp, productos, pedido_id) ==
    LET filas == SelectSeq(pp, LAMBDA r :
                     /\ r.pedido_id = pedido_id
                     /\ \E i \in 1..Len(productos) : productos[i].producto_id = r.producto_id)
    IN  [k \in 1..Len(filas) |->
            LET p == productos[CHOOSE i \in 1..Len(productos) :
                                   productos[i].producto_id = filas[k].producto_id]
            IN  [producto_id |-> filas[k].producto_id, cantidad |-> filas[k].cantidad,
                 nombre |-> p.nombre, precio |-> p.precio]]

\* DELETE FROM pedido_productos WHERE pedido_id = %s
SinProductosDe(pp, pedido_id) == SelectSeq(pp, LAMBDA r : r.pedido_id # pedido_id)

\* The loops of lines 404-412 and 483-491: one row for every line item that
\* names a product.
RECURSIVE InsertarItems(_, _, _)
InsertarItems(pp, pedido_id, productos) ==
    IF productos = <<>> THEN pp
    ELSE LET p == Head(productos)
             producto_id == GetProductoId(p)
             cantidad == GetCantidad(p)
         IN  InsertarItems(
                 IF producto_id = None THEN pp
                 ELSE Append(pp, [pedido_id |-> pedido_id, producto_id |-> producto_id,
                                  cantidad |-> cantidad]),
                 pedido_id, Tail(productos))

\* The rows of a SELECT as the dicts of lines 604-612 and 776-784.
ItemsDeFilas(filas) ==
    [k \in 1..Len(filas) |->
        ItemCompleto(filas[k].producto_id, filas[k].nombre, Float(filas[k].precio),
                     filas[k].cantidad)]

(***************************************************************************)
(* main.py, orders: the handlers.                                          *)
(***************************************************************************)
CuerpoPedido(cliente, fecha_pedido, productos) ==
    [cliente |-> cliente, fecha_pedido |-> fecha_pedido, productos |-> productos]

\* lines 250-258: a dict is read by its four keys.
ItemLegible(p) == IF EsDict(p) THEN ClavesItem \subseteq p.claves ELSE TRUE

AProducto(p) ==
    IF EsDict(p) THEN ProductoDePedido(p.producto_id, p.nombre, p.precio, p.cantidad)
    ELSE p

CuerpoDePedido(pedido_id, cliente, fecha_str, productos) ==
    [pedido_id |-> pedido_id, cliente |-> cliente, fecha_pedido |-> fecha_str,
     productos |-> [i \in 1..Len(productos) |-> to_dict(productos[i])],
     total |-> Total(productos)]

Mut_get_pedido_sin_guardar(pedido_id) ==
    LET pedido_ll == buscar_pedido(lista_pedidos, pedido_id) IN
    \/ /\ pedido_ll # Nil                        \* hit, and p["nombre"] raises KeyError
       /\ \E i \in 1..Len(lista_pedidos.nodos[pedido_ll].productos) :
              ~ItemLegible(lista_pedidos.nodos[pedido_ll].productos[i])
       /\ resp' = Respuesta("get_pedido", 500, pedido_id, [message |-> "KeyError"], 0)
       /\ UNCHANGED <<lista_pedidos, pedidos_db, pedido_productos, ultimo_pedido_id>>
    \/ /\ pedido_ll # Nil                        \* hit
       /\ \A i \in 1..Len(lista_pedidos.nodos[pedido_ll].productos) :
              ItemLegible(lista_pedidos.nodos[pedido_ll].productos[i])
       /\ LET nodo == lista_pedidos.nodos[pedido_ll]
              productos == [i \in 1..Len(nodo.productos) |-> AProducto(nodo.productos[i])]
          IN  /\ lista_pedidos' = [lista_pedidos EXCEPT !.nodos[pedido_ll].productos = productos]
              /\ resp' = Respuesta("get_pedido", 200, pedido_id,
                             CuerpoDePedido(nodo.pedido_id, nodo.cliente, nodo.fecha, productos), 0)
       /\ UNCHANGED <<pedidos_db, pedido_productos, ultimo_pedido_id>>
    \/ /\ pedido_ll = Nil                        \* miss, and the table has no such row
       /\ ~ExistePedido(pedidos_db, pedido_id)
       /\ resp' = Respuesta("get_pedido", 404, pedido_id,
                            [message |-> "Pedido no encontrado"], 1)
       /\ UNCHANGED <<lista_pedidos, pedidos_db, pedido_productos, ultimo_pedido_id>>
    \/ /\ pedido_ll = Nil                        \* miss, read through
       /\ ExistePedido(pedidos_db, pedido_id)
       /\ LET pedido == FilaDePedido(pedidos_db, pedido_id)
              productos_raw == JoinProductos(pedido_productos, productos_db, pedido_id)
              productos == [k \in 1..Len(productos_raw) |->
                               ProductoDePedido(productos_raw[k].producto_id,
                                                productos_raw[k].nombre,
                                                productos_raw[k].precio,
                                                productos_raw[k].cantidad)]
              fecha_str == isoformat(pedido.fecha_pedido)
          IN  /\ lista_pedidos' = lista_pedidos
              /\ resp' = Respuesta("get_pedido", 200, pedido_id,
                             CuerpoDePedido(pedido.pedido_id, pedido.cliente, fecha_str,
                                            productos), 2)
       /\ UNCHANGED <<pedidos_db, pedido_productos, ultimo_pedido_id>>

Mut_get_pedido_sin_buscar(pedido_id) ==
    LET pedido_ll == Nil IN
    \/ /\ pedido_ll # Nil                        \* hit, and p["nombre"] raises KeyError
       /\ \E i \in 1..Len(lista_pedidos.nodos[pedido_ll].productos) :
              ~ItemLegible(lista_pedidos.nodos[pedido_ll].productos[i])
       /\ resp' = Respuesta("get_pedido", 500, pedido_id, [message |-> "KeyError"], 0)
       /\ UNCHANGED <<lista_pedidos, pedidos_db, pedido_productos, ultimo_pedido_id>>
    \/ /\ pedido_ll # Nil                        \* hit
       /\ \A i \in 1..Len(lista_pedidos.nodos[pedido_ll].productos) :
              ItemLegible(lista_pedidos.nodos[pedido_ll].productos[i])
       /\ LET nodo == lista_pedidos.nodos[pedido_ll]
              productos == [i \in 1..Len(nodo.productos) |-> AProducto(nodo.productos[i])]
          IN  /\ lista_pedidos' = [lista_pedidos EXCEPT !.nodos[pedido_ll].productos = productos]
              /\ resp' = Respuesta("get_pedido", 200, pedido_id,
                             CuerpoDePedido(nodo.pedido_id, nodo.cliente, nodo.fecha, productos), 0)
       /\ UNCHANGED <<pedidos_db, pedido_productos, ultimo_pedido_id>>
    \/ /\ pedido_ll = Nil                        \* miss, and the table has no such row
       /\ ~ExistePedido(pedidos_db, pedido_id)
       /\ resp' = Respuesta("get_pedido", 404, pedido_id,
                            [message |-> "Pedido no encontrado"], 1)
       /\ UNCHANGED <<lista_pedidos, pedidos_db, pedido_productos, ultimo_pedido_id>>
    \/ /\ pedido_ll = Nil                        \* miss, read through
       /\ ExistePedido(pedidos_db, pedido_id)
       /\ LET pedido == FilaDePedido(pedidos_db, pedido_id)
              productos_raw == JoinProductos(pedido_productos, productos_db, pedido_id)
              productos == [k \in 1..Len(productos_raw) |->
                               ProductoDePedido(productos_raw[k].producto_id,
                                                productos_raw[k].nombre,
                                                productos_raw[k].precio,
                                                productos_raw[k].cantidad)]
              fecha_str == isoformat(pedido.fecha_pedido)
          IN  /\ lista_pedidos' = agregar_pedido(lista_pedidos, pedido.pedido_id,
                                                 pedido.cliente, fecha_str, productos)
              /\ resp' = Respuesta("get_pedido", 200, pedido_id,
                             CuerpoDePedido(pedido.pedido_id, pedido.cliente, fecha_str,
                                            productos), 2)
       /\ UNCHANGED <<pedidos_db, pedido_productos, ultimo_pedido_id>>

get_pedido(pedido_id) ==
    LET pedido_ll == buscar_pedido(lista_pedidos, pedido_id) IN
    \/ /\ pedido_ll # Nil                        \* hit, and p["nombre"] raises KeyError
       /\ \E i \in 1..Len(lista_pedidos.nodos[pedido_ll].productos) :
              ~ItemLegible(lista_pedidos.nodos[pedido_ll].productos[i])
       /\ resp' = Respuesta("get_pedido", 500, pedido_id, [message |-> "KeyError"], 0)
       /\ UNCHANGED <<lista_pedidos, pedidos_db, pedido_productos, ultimo_pedido_id>>
    \/ /\ pedido_ll # Nil                        \* hit
       /\ \A i \in 1..Len(lista_pedidos.nodos[pedido_ll].productos) :
              ItemLegible(lista_pedidos.nodos[pedido_ll].productos[i])
       /\ LET nodo == lista_pedidos.nodos[pedido_ll]
              productos == [i \in 1..Len(nodo.productos) |-> AProducto(nodo.productos[i])]
          IN  /\ lista_pedidos' = [lista_pedidos EXCEPT !.nodos[pedido_ll].productos = productos]
              /\ resp' = Respuesta("get_pedido", 200, pedido_id,
                             CuerpoDePedido(nodo.pedido_id, nodo.cliente, nodo.fecha, productos), 0)
       /\ UNCHANGED <<pedidos_db, pedido_productos, ultimo_pedido_id>>
    \/ /\ pedido_ll = Nil                        \* miss, and the table has no such row
       /\ ~ExistePedido(pedidos_db, pedido_id)
       /\ resp' = Respuesta("get_pedido", 404, pedido_id,
                            [message |-> "Pedido no encontrado"], 1)
       /\ UNCHANGED <<lista_pedidos, pedidos_db, pedido_productos, ultimo_pedido_id>>
    \/ /\ pedido_ll = Nil                        \* miss, read through
       /\ ExistePedido(pedidos_db, pedido_id)
       /\ LET pedido == FilaDePedido(pedidos_db, pedido_id)
              productos_raw == JoinProductos(pedido_productos, productos_db, pedido_id)
              productos == [k \in 1..Len(productos_raw) |->
                               ProductoDePedido(productos_raw[k].producto_id,
                                                productos_raw[k].nombre,
                                                productos_raw[k].precio,
                                                productos_raw[k].cantidad)]
              fecha_str == isoformat(pedido.fecha_pedido)
          IN  /\ lista_pedidos' = agregar_pedido(lista_pedidos, pedido.pedido_id,
                                                 pedido.cliente, fecha_str, productos)
              /\ resp' = Respuesta("get_pedido", 200, pedido_id,
                             CuerpoDePedido(pedido.pedido_id, pedido.cliente, fecha_str,
                                            productos), 2)
       /\ UNCHANGED <<pedidos_db, pedido_productos, ultimo_pedido_id>>

Mut_create_pedido_valida_tarde(body) ==
    \/ /\ (body.cliente = NoneStr \/ body.fecha_pedido = NoneStr)
       /\ resp' = Respuesta("create_pedido", 400, Nil,
                            [message |-> "Faltan datos obligatorios"], 0)
       /\ UNCHANGED <<lista_pedidos, pedidos_db, pedido_productos, ultimo_pedido_id>>
    \/ /\ ~(body.cliente = NoneStr \/ body.fecha_pedido = NoneStr)
       /\ body.fecha_pedido \notin FechasISO
       /\ ultimo_pedido_id < MaxPedidos
       /\ ultimo_pedido_id' = ultimo_pedido_id + 1
       /\ pedidos_db' = Append(pedidos_db,
              [pedido_id |-> ultimo_pedido_id + 1, cliente |-> body.cliente,
               fecha_pedido |-> fromisoformat("2025-12-08")])
       /\ resp' = Respuesta("create_pedido", 400, Nil,
                            [message |-> "Formato de fecha incorrecto"], 1)
       /\ UNCHANGED <<lista_pedidos, pedido_productos>>
    \/ /\ ~(body.cliente = NoneStr \/ body.fecha_pedido = NoneStr)
       /\ body.fecha_pedido \in FechasISO
       /\ ultimo_pedido_id < MaxPedidos
       /\ LET fecha_pedido_dt == fromisoformat(body.fecha_pedido)
              pedido_id == ultimo_pedido_id + 1
          IN  /\ ultimo_pedido_id' = pedido_id
              /\ pedidos_db' = Append(pedidos_db,
                     [pedido_id |-> pedido_id, cliente |-> body.cliente,
                      fecha_pedido |-> fecha_pedido_dt])
              /\ pedido_productos' = InsertarItems(pedido_productos, pedido_id, body.productos)
              /\ lista_pedidos' = agregar_pedido(lista_pedidos, pedido_id, body.cliente,
                                                 isoformat(fecha_pedido_dt), body.productos)
              /\ resp' = Respuesta("create_pedido", 200, Nil,
                             [message |-> "Pedido creado exitosamente",
                              pedido_id |-> pedido_id],
                             1 + Len(InsertarItems(<<>>, pedido_id, body.productos)))

create_pedido(body) ==
    \/ /\ (body.cliente = NoneStr \/ body.fecha_pedido = NoneStr)
       /\ resp' = Respuesta("create_pedido", 400, Nil,
                            [message |-> "Faltan datos obligatorios"], 0)
       /\ UNCHANGED <<lista_pedidos, pedidos_db, pedido_productos, ultimo_pedido_id>>
    \/ /\ ~(body.cliente = NoneStr \/ body.fecha_pedido = NoneStr)
       /\ body.fecha_pedido \notin FechasISO     \* fromisoformat raises ValueError
       /\ resp' = Respuesta("create_pedido", 400, Nil,
                            [message |-> "Formato de fecha incorrecto"], 0)
       /\ UNCHANGED <<lista_pedidos, pedidos_db, pedido_productos, ultimo_pedido_id>>
    \/ /\ ~(body.cliente = NoneStr \/ body.fecha_pedido = NoneStr)
       /\ body.fecha_pedido \in FechasISO
       /\ ultimo_pedido_id < MaxPedidos
       /\ LET fecha_pedido_dt == fromisoformat(body.fecha_pedido)
              pedido_id == ultimo_pedido_id + 1
          IN  /\ ultimo_pedido_id' = pedido_id
              /\ pedidos_db' = Append(pedidos_db,
                     [pedido_id |-> pedido_id, cliente |-> body.cliente,
                      fecha_pedido |-> fecha_pedido_dt])
              /\ pedido_productos' = InsertarItems(pedido_productos, pedido_id, body.productos)
              /\ lista_pedidos' = agregar_pedido(lista_pedidos, pedido_id, body.cliente,
                                                 isoformat(fecha_pedido_dt), body.productos)
              /\ resp' = Respuesta("create_pedido", 200, Nil,
                             [message |-> "Pedido creado exitosamente",
                              pedido_id |-> pedido_id],
                             1 + Len(InsertarItems(<<>>, pedido_id, body.productos)))

\* UPDATE pedidos SET cliente = %s, fecha_pedido = %s WHERE pedido_id = %s
ActualizarFila(pedidos, pedido_id, cliente, fecha_pedido_dt) ==
    [i \in 1..Len(pedidos) |->
        IF pedidos[i].pedido_id = pedido_id
        THEN [pedidos[i] EXCEPT !.cliente = cliente, !.fecha_pedido = fecha_pedido_dt]
        ELSE pedidos[i]]

\* lines 480-492: the rows of the order are replaced when productos is
\* not empty.
ProductosActualizados(pp, pedido_id, productos) ==
    IF productos # <<>>
    THEN InsertarItems(SinProductosDe(pp, pedido_id), pedido_id, productos)
    ELSE pp

\* lines 495-504: the line items the tree resolves, with its name and price.
RECURSIVE ProductosLista(_, _)
ProductosLista(arbol, productos) ==
    IF productos = <<>> THEN <<>>
    ELSE LET p == Head(productos)
             producto_obj == buscar(arbol, GetProductoId(p))
         IN  (IF producto_obj # NoProducto
              THEN <<ItemCompleto(GetProductoId(p), producto_obj.nombre,
                                  Float(producto_obj.precio), GetCantidad(p))>>
              ELSE <<>>)
             \o ProductosLista(arbol, Tail(productos))

\* _buscar compares None with the key of the root: "None < 1" raises TypeError.
BuscarFalla(arbol, productos) ==
    /\ arbol.raiz # Nil
    /\ \E i \in 1..Len(productos) : GetProductoId(productos[i]) = None

Mut_update_pedido_crea(pedido_id, body) ==
    \/ /\ (~Verdadero(body.cliente) \/ ~Verdadero(body.fecha_pedido))
       /\ resp' = Respuesta("update_pedido", 400, pedido_id,
                            [message |-> "Faltan datos obligatorios"], 0)
       /\ UNCHANGED <<lista_pedidos, pedidos_db, pedido_productos, ultimo_pedido_id>>
    \/ /\ Verdadero(body.cliente) /\ Verdadero(body.fecha_pedido)
       /\ body.fecha_pedido \notin FechasISO
       /\ resp' = Respuesta("update_pedido", 400, pedido_id,
                            [message |-> "Formato de fecha incorrecto"], 0)
       /\ UNCHANGED <<lista_pedidos, pedidos_db, pedido_productos, ultimo_pedido_id>>
    \/ /\ Verdadero(body.cliente) /\ Verdadero(body.fecha_pedido)
       /\ body.fecha_pedido \in FechasISO
       /\ LET fecha_pedido_dt == fromisoformat(body.fecha_pedido) IN
          /\ pedidos_db' = ActualizarFila(pedidos_db, pedido_id, body.cliente, fecha_pedido_dt)
          /\ pedido_productos' = ProductosActualizados(pedido_productos, pedido_id, body.productos)
          /\ IF BuscarFalla(arbol_productos, body.productos)
             THEN /\ resp' = Respuesta("update_pedido", 500, pedido_id,
                                       [message |-> "TypeError"],
                                       2 + Len(InsertarItems(<<>>, pedido_id, body.productos)))
                  /\ UNCHANGED lista_pedidos
             ELSE /\ lista_pedidos' =
                         IF buscar_pedido(lista_pedidos, pedido_id) = Nil
                         THEN agregar_pedido(lista_pedidos, pedido_id, body.cliente,
                                  isoformat(fecha_pedido_dt),
                                  ProductosLista(arbol_productos, body.productos))
                         ELSE actualizar_pedido(lista_pedidos, pedido_id, body.cliente,
                                  isoformat(fecha_pedido_dt),
                                  ProductosLista(arbol_productos, body.productos)).lista
                  /\ resp' = Respuesta("update_pedido", 200, pedido_id,
                                       [message |-> "Pedido actualizado exitosamente"],
                                       IF body.productos # <<>>
                                       THEN 2 + Len(InsertarItems(<<>>, pedido_id, body.productos))
                                       ELSE 1)
       /\ UNCHANGED ultimo_pedido_id

update_pedido(pedido_id, body) ==
    \/ /\ (~Verdadero(body.cliente) \/ ~Verdadero(body.fecha_pedido))
       /\ resp' = Respuesta("update_pedido", 400, pedido_id,
                            [message |-> "Faltan datos obligatorios"], 0)
       /\ UNCHANGED <<lista_pedidos, pedidos_db, pedido_productos, ultimo_pedido_id>>
    \/ /\ Verdadero(body.cliente) /\ Verdadero(body.fecha_pedido)
       /\ body.fecha_pedido \notin FechasISO
       /\ resp' = Respuesta("update_pedido", 400, pedido_id,
                            [message |-> "Formato de fecha incorrecto"], 0)
       /\ UNCHANGED <<lista_pedidos, pedidos_db, pedido_productos, ultimo_pedido_id>>
    \/ /\ Verdadero(body.cliente) /\ Verdadero(body.fecha_pedido)
       /\ body.fecha_pedido \in FechasISO
       /\ LET fecha_pedido_dt == fromisoformat(body.fecha_pedido) IN
          /\ pedidos_db' = ActualizarFila(pedidos_db, pedido_id, body.cliente, fecha_pedido_dt)
          /\ pedido_productos' = ProductosActualizados(pedido_productos, pedido_id, body.productos)
          /\ IF BuscarFalla(arbol_productos, body.productos)
             THEN /\ resp' = Respuesta("update_pedido", 500, pedido_id,
                                       [message |-> "TypeError"],
                                       2 + Len(InsertarItems(<<>>, pedido_id, body.productos)))
                  /\ UNCHANGED lista_pedidos
             ELSE /\ lista_pedidos' =
                         actualizar_pedido(lista_pedidos, pedido_id, body.cliente,
                             isoformat(fecha_pedido_dt),
                             ProductosLista(arbol_productos, body.productos)).lista
                  /\ resp' = Respuesta("update_pedido", 200, pedido_id,
                                       [message |-> "Pedido actualizado exitosamente"],
                                       IF body.productos # <<>>
                                       THEN 2 + Len(InsertarItems(<<>>, pedido_id, body.productos))
                                       ELSE 1)
       /\ UNCHANGED ultimo_pedido_id

delete_pedido(pedido_id) ==
    /\ pedido_productos' = SinProductosDe(pedido_productos, pedido_id)
    /\ pedidos_db' = SelectSeq(pedidos_db, LAMBDA r : r.pedido_id # pedido_id)
    /\ lista_pedidos' = eliminar_pedido(lista_pedidos, pedido_id).lista
    /\ resp' = Respuesta("delete_pedido", 200, pedido_id,
                         [message |-> "Pedido eliminado exitosamente"], 2)
    /\ UNCHANGED ultimo_pedido_id

\* The loop of lines 591-620: every row of pedidos appended with its joined
\* line items.
RECURSIVE CargarPedidos(_, _, _, _)
CargarPedidos(lista, pedidos, pp, productos) ==
    IF pedidos = <<>> THEN lista
    ELSE LET ped == Head(pedidos)
             productos_lista == ItemsDeFilas(JoinProductos(pp, productos, ped.pedido_id))
         IN  CargarPedidos(
                 agregar_pedido(lista, ped.pedido_id, ped.cliente,
                                isoformat(ped.fecha_pedido), productos_lista),
                 Tail(pedidos), pp, productos)

Mut_list_pedidos_sin_vaciar ==
    LET lista == CargarPedidos(lista_pedidos, pedidos_db, pedido_productos, productos_db) IN
    /\ lista_pedidos' = lista
    /\ resp' = Respuesta("list_pedidos", 200, Nil, [pedidos |-> listar_pedidos(lista)],
                         1 + Len(pedidos_db))
    /\ UNCHANGED <<pedidos_db, pedido_productos, ultimo_pedido_id>>

list_pedidos ==
    LET lista == CargarPedidos(ListaVacia, pedidos_db, pedido_productos, productos_db) IN
    /\ lista_pedidos' = lista
    /\ resp' = Respuesta("list_pedidos", 200, Nil, [pedidos |-> listar_pedidos(lista)],
                         1 + Len(pedidos_db))
    /\ UNCHANGED <<pedidos_db, pedido_productos, ultimo_pedido_id>>

\* The loop of lines 765-791.
PedidosExportar(pedidos, pp, productos) ==
    [i \in 1..Len(pedidos) |->
        [pedido_id |-> pedidos[i].pedido_id, cliente |-> pedidos[i].cliente,
         fecha |-> isoformat(pedidos[i].fecha_pedido),
         productos |-> ItemsDeFilas(JoinProductos(pp, productos, pedidos[i].pedido_id))]]

Mut_export_pedidos_de_cache ==
    /\ pedidos_json' = [existe |-> TRUE, datos |-> listar_pedidos(lista_pedidos)]
    /\ resp' = Respuesta("export_pedidos", 200, Nil,
                         [message |-> "Pedidos exportados correctamente"], 1 + Len(pedidos_db))
    /\ UNCHANGED <<lista_pedidos, pedidos_db, pedido_productos, ultimo_pedido_id>>

export_pedidos ==
    /\ pedidos_json' = [existe |-> TRUE,
                        datos |-> PedidosExportar(pedidos_db, pedido_productos, productos_db)]
    /\ resp' = Respuesta("export_pedidos", 200, Nil,
                         [message |-> "Pedidos exportados correctamente"], 1 + Len(pedidos_db))
    /\ UNCHANGED <<lista_pedidos, pedidos_db, pedido_productos, ultimo_pedido_id>>

\* The loop of lines 824-830.
RECURSIVE AgregarTodos(_, _)
AgregarTodos(lista, pedidos_data) ==
    IF pedidos_data = <<>> THEN lista
    ELSE LET ped == Head(pedidos_data) IN
         AgregarTodos(agregar_pedido(lista, ped.pedido_id, ped.cliente, ped.fecha,
                                     ped.productos),
                      Tail(pedidos_data))

Mut_import_pedidos_sin_vaciar ==
    \/ /\ ~pedidos_json.existe
       /\ resp' = Respuesta("import_pedidos", 500, Nil, [message |-> "FileNotFoundError"], 0)
       /\ UNCHANGED lista_pedidos
    \/ /\ pedidos_json.existe
       /\ lista_pedidos' = AgregarTodos(lista_pedidos, pedidos_json.datos)
       /\ resp' = Respuesta("import_pedidos", 200, Nil,
                            [message |-> "Pedidos importados exitosamente"], 0)

import_pedidos ==
    \/ /\ ~pedidos_json.existe                   \* open() raises FileNotFoundError
       /\ resp' = Respuesta("import_pedidos", 500, Nil, [message |-> "FileNotFoundError"], 0)
       /\ UNCHANGED lista_pedidos
    \/ /\ pedidos_json.existe
       /\ lista_pedidos' = AgregarTodos(ListaVacia, pedidos_json.datos)
       /\ resp' = Respuesta("import_pedidos", 200, Nil,
                            [message |-> "Pedidos importados exitosamente"], 0)

(***************************************************************************)
(* The order handlers as the actions of the running service.  The table   *)
(* productos holds two products from earlier runs; both structures start   *)
(* empty (lines 61 and 65).                                                 *)
(***************************************************************************)
ProductosIniciales ==
    <<FilaProducto(1, "A", [t |-> "float", v |-> 10], "d", 3),
      FilaProducto(2, "B", [t |-> "float", v |-> 5], "d", 3)>>

DosProductos == <<ItemPedido(1, 2), ItemPedido(2, 1)>>

\* Request bodies of POST /pedidos and of PUT /pedidos/{pedido_id} that the
\* handlers accept.
CuerposAlta == {CuerpoPedido("Ana", "2025-12-08", DosProductos)}

CuerposCambio ==
    {CuerpoPedido("Bob", "2025-12-09T14:00:00", <<>>),
     CuerpoPedido("Bob", "2025-12-09T14:00:00", <<ItemPedido(2, 3), ItemSinCantidad(1)>>)}

\* Bodies both handlers reject: no cliente (lines 389 and 464), and a date
\* fromisoformat raises ValueError on (lines 392-395 and 468-471).
CuerposRechazados ==
    {CuerpoPedido(NoneStr, "2025-12-08", DosProductos),
     CuerpoPedido("Ana", "ayer", DosProductos)}

\* pedidos.json is a file of the working directory: import_pedidos reads
\* whatever it holds, written by export_pedidos or put there from outside.
RegistroPedido(pedido_id, cliente, fecha, productos) ==
    [pedido_id |-> pedido_id, cliente |-> cliente, fecha |-> fecha, productos |-> productos]

ArchivosPedidos ==
    {<<>>,
     <<RegistroPedido(1, "Eva", "2025-12-08T00:00:00",
                      <<ItemCompleto(1, "A", [t |-> "float", v |-> 10], 1)>>),
       RegistroPedido(1, "Eva", "2025-12-08T00:00:00", <<>>)>>}

Init ==
    /\ arbol_productos = ArbolVacio
    /\ insertados = <<>>
    /\ productos_db = ProductosIniciales
    /\ productos_json = NoArchivo
    /\ resp = SinRespuesta
    /\ SinPedidos

varsProductos == <<productos_db, productos_json, insertados>>

GetPedido ==
    \E pedido_id \in 1..MaxPedidos :
        get_pedido(pedido_id) /\ UNCHANGED <<varsProductos, en_curso, arbol_productos, pedidos_json>>

CreatePedido ==
    \E body \in CuerposAlta :
        create_pedido(body) /\ UNCHANGED <<varsProductos, en_curso, arbol_productos, pedidos_json>>

\* Line items are given for the orders the table holds.
UpdatePedido ==
    \E pedido_id \in 1..MaxPedidos, body \in CuerposCambio :
        /\ ExistePedido(pedidos_db, pedido_id) \/ body.productos = <<>>
        /\ update_pedido(pedido_id, body)
        /\ UNCHANGED <<varsProductos, en_curso, arbol_productos, pedidos_json>>

DeletePedido ==
    \E pedido_id \in 1..MaxPedidos :
        delete_pedido(pedido_id) /\ UNCHANGED <<varsProductos, en_curso, arbol_productos, pedidos_json>>

CreatePedidoRechazado ==
    \E body \in CuerposRechazados :
        create_pedido(body) /\ UNCHANGED <<varsProductos, en_curso, arbol_productos, pedidos_json>>

UpdatePedidoRechazado ==
    \E pedido_id \in 1..MaxPedidos, body \in CuerposRechazados :
        update_pedido(pedido_id, body) /\ UNCHANGED <<varsProductos, en_curso, arbol_productos, pedidos_json>>

ListPedidos == list_pedidos /\ UNCHANGED <<varsProductos, en_curso, arbol_productos, pedidos_json>>

ExportPedidos == export_pedidos /\ UNCHANGED <<varsProductos, en_curso, arbol_productos>>

ImportPedidos ==
    /\ import_pedidos
    /\ UNCHANGED <<varsProductos, en_curso, arbol_productos, pedidos_db, pedido_productos,
                   ultimo_pedido_id, pedidos_json>>

ArchivoPedidosExterno ==
    \E datos \in ArchivosPedidos :
        /\ pedidos_json' = [existe |-> TRUE, datos |-> datos]
        /\ UNCHANGED <<varsProductos, en_curso, arbol_productos, lista_pedidos, pedidos_db,
                       pedido_productos, ultimo_pedido_id, resp>>

\* The service is started again: lines 61 and 65 build both structures anew,
\* the requests in flight are gone, the tables and the files stay.
Arranque ==
    /\ arbol_productos' = ArbolVacio
    /\ lista_pedidos' = ListaVacia
    /\ resp' = SinRespuesta
    /\ en_curso' = {}
    /\ UNCHANGED <<varsProductos, pedidos_db, pedido_productos, ultimo_pedido_id, pedidos_json>>

\* The first product lookup after the start fills the tree; later ones add
\* further copies of the same rows.
PrimerGetProductBst ==
    /\ arbol_productos.raiz = Nil
    /\ get_product_bst(1)

Next ==
    \/ GetPedido
    \/ CreatePedido
    \/ UpdatePedido
    \/ DeletePedido
    \/ ListPedidos
    \/ PrimerGetProductBst
    \/ Arranque

Spec == Init /\ [][Next]_vars

\* The same service with the files (pedidos.json written, replaced from
\* outside and read back) and with the requests the handlers reject.
NextArchivo ==
    \/ GetPedido
    \/ CreatePedido
    \/ CreatePedidoRechazado
    \/ UpdatePedidoRechazado
    \/ DeletePedido
    \/ ExportPedidos
    \/ ImportPedidos
    \/ ArchivoPedidosExterno

SpecArchivo == Init /\ [][NextArchivo]_vars

(***************************************************************************)
(* The cache of orders against the tables.                                  *)
(***************************************************************************)
\* The (product id, quantity) of a line item held in the list, of the line
\* items of a request, and of the rows of an order.
ParDeItem(p) ==
    IF EsDict(p) THEN <<p.producto_id, p.cantidad>> ELSE <<p.product_id, p.cantidad>>

ParesDeCache(productos) == {ParDeItem(productos[i]) : i \in 1..Len(productos)}

ParesDePeticion(productos) ==
    {<<GetProductoId(productos[i]), GetCantidad(productos[i])>> : i \in 1..Len(productos)}

ParesDeTabla(pp, pedido_id) ==
    {<<pp[i].producto_id, pp[i].cantidad>> : i \in {j \in 1..Len(pp) : pp[j].pedido_id = pedido_id}}

EnCache(pedido_id) == buscar_pedido(lista_pedidos, pedido_id) # Nil

NodoDe(lista, pedido_id) == lista.nodos[buscar_pedido(lista, pedido_id)]

\* C1: a lookup answered from the list (no statement sent to the store)
\* returns the order: status 200, the identifier asked for, every line item
\* with a quantity and the total of the line items held.
C1_LookupDeCache ==
    (resp.op = "get_pedido" /\ resp.sql = 0) =>
        /\ resp.status = 200
        /\ resp.cuerpo.pedido_id = resp.arg
        /\ \A i \in 1..Len(resp.cuerpo.productos) : resp.cuerpo.productos[i].cantidad # None
        /\ resp.cuerpo.total = Total(NodoDe(lista_pedidos, resp.arg).productos)

\* C3: every node of the list agrees with the tables: the order has a row,
\* with the node's client and date, and the (product id, quantity) of the
\* node's line items are those of the order's rows.
C3_CacheConsistente ==
    \A n \in DOMAIN lista_pedidos.nodos :
        LET nodo == lista_pedidos.nodos[n] IN
        /\ ExistePedido(pedidos_db, nodo.pedido_id)
        /\ nodo.cliente = FilaDePedido(pedidos_db, nodo.pedido_id).cliente
        /\ nodo.fecha = isoformat(FilaDePedido(pedidos_db, nodo.pedido_id).fecha_pedido)
        /\ ParesDeCache(nodo.productos) = ParesDeTabla(pedido_productos, nodo.pedido_id)

\* C4: an update that succeeds on an order held in the list leaves the node
\* with exactly the line items of the request.
C4_ReemplazoCompleto ==
    [][\A pedido_id \in 1..MaxPedidos, body \in CuerposCambio :
          (EnCache(pedido_id) /\ update_pedido(pedido_id, body) /\ resp'.status = 200)
              => ParesDeCache(NodoDe(lista_pedidos', pedido_id).productos)
                     = ParesDePeticion(body.productos)]_vars

\* C5: a lookup that directly follows a lookup of the same order gives the
\* same status and the same body (client, date, line items and total), and
\* sends no statement to the store unless the order does not exist.
C5_Idempotencia ==
    [][\A pedido_id \in 1..MaxPedidos :
          (resp.op = "get_pedido" /\ resp.arg = pedido_id /\ get_pedido(pedido_id))
              => /\ resp'.status = resp.status
                 /\ resp'.cuerpo = resp.cuerpo
                 /\ resp'.status # 404 => resp'.sql = 0]_vars

C5_Witness ==
    /\ resp.op = "get_pedido" /\ resp.status = 200 /\ resp.sql = 0
    /\ resp.cuerpo.cliente = "Bob"
    /\ resp.cuerpo.total = [t |-> "float", v |-> 25]
    /\ \A i \in 1..Len(NodoDe(lista_pedidos, resp.arg).productos) :
           ~EsDict(NodoDe(lista_pedidos, resp.arg).productos[i])

\* C6: right after list_pedidos the list holds one node for every row of
\* pedidos, in the order of the rows, each with the row's client and date
\* and the joined line items, and the listing returned is the list.
C6_ListAllSincroniza ==
    resp.op = "list_pedidos" =>
        LET cache == listar_pedidos(lista_pedidos) IN
        /\ Cardinality(DOMAIN lista_pedidos.nodos) = Len(pedidos_db)
        /\ Len(cache) = Len(pedidos_db)
        /\ \A i \in 1..Len(pedidos_db) :
               /\ cache[i].pedido_id = pedidos_db[i].pedido_id
               /\ cache[i].cliente = pedidos_db[i].cliente
               /\ cache[i].fecha = isoformat(pedidos_db[i].fecha_pedido)
               /\ cache[i].productos =
                      ItemsDeFilas(JoinProductos(pedido_productos, productos_db,
                                                 pedidos_db[i].pedido_id))
        /\ resp.cuerpo.pedidos = cache

C6_Witness ==
    /\ resp.op = "list_pedidos"
    /\ Len(pedidos_db) = 2
    /\ pedidos_db[1].cliente # pedidos_db[2].cliente
    /\ \A i \in 1..2 : Len(listar_pedidos(lista_pedidos)[i].productos) = 2

\* C7: right after delete_pedido the tables hold no row of the order and
\* the list finds no node with its identifier.
C7_DeleteQuita ==
    resp.op = "delete_pedido" =>
        /\ ~ExistePedido(pedidos_db, resp.arg)
        /\ ParesDeTabla(pedido_productos, resp.arg) = {}
        /\ ~EnCache(resp.arg)

(***************************************************************************)
(* The list on its own: agregar_pedido, eliminar_pedido, actualizar_pedido *)
(* and the emptying of the list, with repeated identifiers.                 *)
(***************************************************************************)
MaxLista == 3                       \* nodes the list may hold

IdsLista == {10, 11}

\* The client an order is appended with.
ClienteDe(pedido_id) == IF pedido_id = 10 THEN "Ana" ELSE "Bob"

FechaInicial == "2025-12-08T00:00:00"
ProductosIniciales1 == <<ItemCompleto(1, "A", [t |-> "float", v |-> 10], 2)>>

\* The arguments of actualizar_pedido: cliente alone (the others left at
\* their default None), every field given empty, every field given, and
\* cliente left out.
Cambio(cliente, fecha, productos) ==
    [cliente |-> cliente, fecha |-> fecha, productos |-> productos]

CambiosLista ==
    {Cambio("Eva", NoneStr, NoneProductos),
     Cambio("", "", <<>>),
     Cambio("Eva", "2025-12-09T14:00:00", <<>>),
     Cambio(NoneStr, "2025-12-09T14:00:00",
            <<ItemCompleto(2, "B", [t |-> "float", v |-> 5], 1)>>)}

InitLista ==
    /\ arbol_productos = ArbolVacio
    /\ insertados = <<>>
    /\ productos_db = <<>>
    /\ productos_json = NoArchivo
    /\ resp = SinRespuesta
    /\ SinPedidos

varsNoLista ==
    <<arbol_productos, insertados, productos_db, productos_json, resp,
      pedidos_db, pedido_productos, ultimo_pedido_id, pedidos_json, en_curso>>

Agregar(pedido_id) ==
    /\ Cardinality(DOMAIN lista_pedidos.nodos) < MaxLista
    /\ lista_pedidos' = agregar_pedido(lista_pedidos, pedido_id, ClienteDe(pedido_id),
                                       FechaInicial, ProductosIniciales1)
    /\ UNCHANGED varsNoLista

Eliminar(pedido_id) ==
    /\ lista_pedidos' = eliminar_pedido(lista_pedidos, pedido_id).lista
    /\ UNCHANGED varsNoLista

Actualizar(pedido_id, c) ==
    /\ lista_pedidos' = actualizar_pedido(lista_pedidos, pedido_id, c.cliente, c.fecha,
                                          c.productos).lista
    /\ UNCHANGED varsNoLista

LstAgregar == \E pedido_id \in IdsLista : Agregar(pedido_id)
LstEliminar == \E pedido_id \in IdsLista : Eliminar(pedido_id)
LstActualizar == \E pedido_id \in IdsLista, c \in CambiosLista : Actualizar(pedido_id, c)

\* lista_pedidos.cabeza = None (lines 588 and 822 of main.py)
LstLimpiar ==
    /\ lista_pedidos.cabeza # Nil
    /\ lista_pedidos' = ListaVacia
    /\ UNCHANGED varsNoLista

NextLista == LstAgregar \/ LstEliminar \/ LstActualizar \/ LstLimpiar

SpecLista == InitLista /\ [][NextLista]_vars

(***************************************************************************)
(* Properties of the list (checked under SpecLista)                        *)
(***************************************************************************)
\* The k-th node from the head of the list.
RECURSIVE NodoEn(_, _, _)
NodoEn(nodos, actual, k) ==
    IF k = 1 THEN actual ELSE NodoEn(nodos, nodos[actual].siguiente, k - 1)

IdsPedidos(seq) == [i \in 1..Len(seq) |-> seq[i].pedido_id]

SinElemento(seq, k) == SubSeq(seq, 1, k - 1) \o SubSeq(seq, k + 1, Len(seq))

NodosCon(lista, pedido_id) ==
    {n \in DOMAIN lista.nodos : lista.nodos[n].pedido_id = pedido_id}

\* C11: agregar_pedido puts the order after all the orders listar_pedidos
\* already returned, and eliminar_pedido takes at most one order out of the
\* listing and keeps the others in their order; after 10 and 11 were
\* appended the listing is 10, 11 and eliminar_pedido(10) leaves 11.
C11_OrdenDeLista ==
    [][/\ \A pedido_id \in IdsLista :
              Agregar(pedido_id) =>
                  listar_pedidos(lista_pedidos')
                      = Append(listar_pedidos(lista_pedidos),
                               [pedido_id |-> pedido_id, cliente |-> ClienteDe(pedido_id),
                                fecha |-> FechaInicial, productos |-> ProductosIniciales1])
       /\ \A pedido_id \in IdsLista :
              Eliminar(pedido_id) =>
                  LET antes == listar_pedidos(lista_pedidos)
                      despues == listar_pedidos(lista_pedidos')
                  IN  /\ \/ despues = antes
                         \/ \E k \in 1..Len(antes) : despues = SinElemento(antes, k)
                      /\ (IdsPedidos(antes) = <<10, 11>> /\ pedido_id = 10)
                             => IdsPedidos(despues) = <<11>>]_vars

\* Node 1 was unlinked from a list of three: the two that remain are listed
\* in the order they were appended in.
C11_Witness ==
    /\ DOMAIN lista_pedidos.nodos = {2, 3}
    /\ IdsPedidos(listar_pedidos(lista_pedidos)) = <<11, 10>>

\* C12 as stated: after agregar_pedido(id) buscar_pedido(id) finds a node,
\* and after eliminar_pedido(id) buscar_pedido(id) finds none and
\* listar_pedidos has no order with the identifier.
C12_CRUD ==
    [][/\ \A pedido_id \in IdsLista :
              Agregar(pedido_id) => buscar_pedido(lista_pedidos', pedido_id) # Nil
       /\ \A pedido_id \in IdsLista :
              Eliminar(pedido_id) =>
                  /\ buscar_pedido(lista_pedidos', pedido_id) = Nil
                  /\ \A i \in 1..Len(listar_pedidos(lista_pedidos')) :
                         listar_pedidos(lista_pedidos')[i].pedido_id # pedido_id]_vars

\* C12 amended: the same, for eliminar_pedido on a list that holds at most
\* one node with the identifier.
C12_CRUDUnico ==
    [][/\ \A pedido_id \in IdsLista :
              Agregar(pedido_id) => buscar_pedido(lista_pedidos', pedido_id) # Nil
       /\ \A pedido_id \in IdsLista :
              (Eliminar(pedido_id) /\ Cardinality(NodosCon(lista_pedidos, pedido_id)) <= 1) =>
                  /\ buscar_pedido(lista_pedidos', pedido_id) = Nil
                  /\ \A i \in 1..Len(listar_pedidos(lista_pedidos')) :
                         listar_pedidos(lista_pedidos')[i].pedido_id # pedido_id]_vars

\* The one node with identifier 10 was unlinked from the head; 11 remains.
C12_Witness ==
    /\ DOMAIN lista_pedidos.nodos = {2}
    /\ lista_pedidos.cabeza = 2
    /\ IdsPedidos(listar_pedidos(lista_pedidos)) = <<11>>
    /\ buscar_pedido(lista_pedidos, 10) = Nil

SoloCliente == Cambio("Eva", NoneStr, NoneProductos)

\* The place in the listing of the node buscar_pedido finds (0 for none).
PrimerIndice(seq, pedido_id) ==
    IF \E i \in 1..Len(seq) : seq[i].pedido_id = pedido_id
    THEN CHOOSE i \in 1..Len(seq) :
             /\ seq[i].pedido_id = pedido_id
             /\ \A j \in 1..(i - 1) : seq[j].pedido_id # pedido_id
    ELSE 0

\* C13: actualizar_pedido(id, cliente = "Eva"), fecha and productos left at
\* None, gives the first node with the identifier the client "Eva" and
\* changes nothing else: the listing has the same length, that node keeps
\* its identifier, date and line items, and every other node is as before.
C13_SoloCliente ==
    [][\A pedido_id \in IdsLista :
          Actualizar(pedido_id, SoloCliente) =>
              LET antes == listar_pedidos(lista_pedidos)
                  despues == listar_pedidos(lista_pedidos')
                  k == PrimerIndice(antes, pedido_id)
              IN  /\ Len(despues) = Len(antes)
                  /\ lista_pedidos'.cabeza = lista_pedidos.cabeza
                  /\ \A i \in 1..Len(antes) :
                         IF i = k
                         THEN despues[i] = [antes[i] EXCEPT !.cliente = "Eva"]
                         ELSE despues[i] = antes[i]]_vars

\* The first of two nodes with identifier 10 has the new client and its
\* first date and line items; the second node is as it was appended.
C13_Witness ==
    /\ Len(listar_pedidos(lista_pedidos)) >= 2
    /\ listar_pedidos(lista_pedidos)[1]
           = [pedido_id |-> 10, cliente |-> "Eva", fecha |-> FechaInicial,
              productos |-> ProductosIniciales1]
    /\ listar_pedidos(lista_pedidos)[2]
           = [pedido_id |-> 10, cliente |-> "Ana", fecha |-> FechaInicial,
              productos |-> ProductosIniciales1]

\* C14: actualizar_pedido overwrites every field it is given, an empty
\* string or an empty list included, and leaves alone only the fields that
\* are None.
C14_VacioNoEsAusente ==
    [][\A pedido_id \in IdsLista, c \in CambiosLista :
          (Actualizar(pedido_id, c) /\ buscar_pedido(lista_pedidos, pedido_id) # Nil) =>
              LET antes == NodoDe(lista_pedidos, pedido_id)
                  despues == lista_pedidos'.nodos[buscar_pedido(lista_pedidos, pedido_id)]
              IN  /\ despues.cliente = IF c.cliente # NoneStr THEN c.cliente ELSE antes.cliente
                  /\ despues.fecha = IF c.fecha # NoneStr THEN c.fecha ELSE antes.fecha
                  /\ despues.productos
                         = IF c.productos # NoneProductos THEN c.productos ELSE antes.productos]_vars

\* C30: in a list with several nodes of one identifier, buscar_pedido
\* returns the one nearest the head; eliminar_pedido returns True and takes
\* exactly that node out (the head moves on if it was the first), every
\* other node staying with its fields and in its place; actualizar_pedido
\* returns True and changes that node and no other.
C30_PrimeroDeLosRepetidos ==
    [][\A pedido_id \in IdsLista :
          Cardinality(NodosCon(lista_pedidos, pedido_id)) >= 2 =>
              LET antes == listar_pedidos(lista_pedidos)
                  despues == listar_pedidos(lista_pedidos')
                  k == PrimerIndice(antes, pedido_id)
                  primero == NodoEn(lista_pedidos.nodos, lista_pedidos.cabeza, k)
              IN  /\ buscar_pedido(lista_pedidos, pedido_id) = primero
                  /\ Eliminar(pedido_id) =>
                         /\ eliminar_pedido(lista_pedidos, pedido_id).ok
                         /\ despues = SinElemento(antes, k)
                         /\ DOMAIN lista_pedidos'.nodos = DOMAIN lista_pedidos.nodos \ {primero}
                         /\ lista_pedidos'.cabeza =
                                IF k = 1 THEN lista_pedidos.nodos[primero].siguiente
                                ELSE lista_pedidos.cabeza
                         /\ buscar_pedido(lista_pedidos', pedido_id) # Nil
                  /\ \A c \in CambiosLista :
                         Actualizar(pedido_id, c) =>
                             /\ actualizar_pedido(lista_pedidos, pedido_id, c.cliente, c.fecha,
                                                  c.productos).ok
                             /\ Len(despues) = Len(antes)
                             /\ \A i \in 1..Len(antes) : i # k => despues[i] = antes[i]
                             /\ despues[k].pedido_id = pedido_id
                             /\ Verdadero(c.cliente) => despues[k].cliente = c.cliente]_vars

\* Of 11, 10, 10 the first 10, the second node of the list, was taken out:
\* the head and the later 10 remain.
C30_Witness ==
    /\ DOMAIN lista_pedidos.nodos = {1, 3}
    /\ lista_pedidos.cabeza = 1
    /\ IdsPedidos(listar_pedidos(lista_pedidos)) = <<11, 10>>
    /\ buscar_pedido(lista_pedidos, 10) = 3

(***************************************************************************)
(* Export and import of the products (checked under SpecCatalogo)          *)
(***************************************************************************)
EnOrden(arbol) == serializar_arbol_productos(arbol.nodos, arbol.raiz)

\* A row of the table productos as a record of productos.json.
RegistroDeFila(fila) ==
    [product_id |-> fila.producto_id, nombre |-> fila.nombre, precio |-> Float(fila.precio),
     descripcion |-> fila.descripcion, stock |-> fila.stock]

\* C15: import_data right after export_data, the file being what export_data
\* wrote, leaves a tree whose in-order serialization is the exported
\* sequence: the same records in the same order.
C15_IdaYVuelta ==
    [][(/\ resp.op = "export_data"
        /\ productos_json.datos = EnOrden(arbol_productos)
        /\ ImportData)
           => /\ resp'.status = 200
              /\ EnOrden(arbol_productos') = productos_json.datos
              /\ productos_json' = productos_json]_vars

\* import_data has answered, and the tree and the file both hold the two
\* rows of the table as export_data writes them.
C15_Witness ==
    /\ resp.op = "import_data" /\ resp.status = 200
    /\ Len(productos_db) = 2
    /\ productos_json.datos = [i \in 1..2 |-> RegistroDeFila(productos_db[i])]
    /\ EnOrden(arbol_productos) = productos_json.datos

\* C16: export_data, whatever the tree held before, writes one record for
\* every row of the table productos, with the row's values, in strictly
\* ascending order of product_id, and leaves a tree of one node per row.
C16_ExportaTabla ==
    [][ExportData =>
           LET datos == productos_json'.datos IN
           /\ productos_json'.existe
           /\ Len(datos) = Len(productos_db)
           /\ \A i, j \in 1..Len(datos) : i < j => datos[i].product_id < datos[j].product_id
           /\ \A i \in 1..Len(productos_db) :
                  \E k \in 1..Len(datos) : datos[k] = RegistroDeFila(productos_db[i])
           /\ Len(arbol_productos'.nodos) = Len(productos_db)
           /\ EnOrden(arbol_productos') = datos]_vars

\* export_data has answered with two rows in the table: the file holds two
\* records and the tree two nodes.
C16_Witness ==
    /\ resp.op = "export_data"
    /\ Len(productos_db) = 2
    /\ Len(productos_json.datos) = 2
    /\ Len(arbol_productos.nodos) = 2

(***************************************************************************)
(* Both imports in one service: the tree filled by a lookup, the list by   *)
(* create_pedido, and the two files written by the exports or from outside. *)
(***************************************************************************)
NextImportar ==
    \/ PrimerGetProductBst
    \/ ExportData
    \/ ImportData
    \/ ArchivoProductosExterno
    \/ CreatePedido
    \/ ExportPedidos
    \/ ImportPedidos
    \/ ArchivoPedidosExterno

SpecImportar == Init /\ [][NextImportar]_vars

Tablas == <<productos_db, pedidos_db, pedido_productos, ultimo_pedido_id>>

\* C17: import_data and import_pedidos, given a file, leave the tables as
\* they are; the tree then holds the records of productos.json and nothing
\* else, and the list holds the records of pedidos.json, in the order of the
\* file, and nothing else.
C17_ImportaSoloCache ==
    [][/\ (ImportData /\ productos_json.existe) =>
              /\ Tablas' = Tablas
              /\ Len(arbol_productos'.nodos) = Len(productos_json.datos)
              /\ \A i \in 1..Len(productos_json.datos) :
                     Veces(EnOrden(arbol_productos'), productos_json.datos[i])
                         = Veces(productos_json.datos, productos_json.datos[i])
       /\ (ImportPedidos /\ pedidos_json.existe) =>
              /\ Tablas' = Tablas
              /\ listar_pedidos(lista_pedidos') = pedidos_json.datos
              /\ Cardinality(DOMAIN lista_pedidos'.nodos) = Len(pedidos_json.datos)]_vars

\* import_pedidos has answered: the list holds the two records of the file
\* and not the order of the table, which create_pedido had put in the list;
\* the tree holds the one record an earlier import_data was given and the
\* table productos its two rows.
C17_Witness ==
    /\ resp.op = "import_pedidos" /\ resp.status = 200
    /\ Len(pedidos_db) = 1
    /\ Len(pedidos_json.datos) = 2
    /\ listar_pedidos(lista_pedidos) = pedidos_json.datos
    /\ \A i \in 1..2 : listar_pedidos(lista_pedidos)[i].cliente # pedidos_db[1].cliente
    /\ EnOrden(arbol_productos) = <<RegistroExterno(1, "Z", 99)>>
    /\ productos_db = ProductosIniciales

\* C18: what export_pedidos writes is a function of the tables alone (one
\* record for every row of pedidos, in row order, with the row's client,
\* its date in ISO form and its joined line items), whatever the list
\* holds, and the step leaves the list and the tables as they were.
C18_ExportaDeTablas ==
    [][ExportPedidos =>
           LET datos == pedidos_json'.datos IN
           /\ pedidos_json'.existe
           /\ Len(datos) = Len(pedidos_db)
           /\ \A i \in 1..Len(pedidos_db) :
                  /\ datos[i].pedido_id = pedidos_db[i].pedido_id
                  /\ datos[i].cliente = pedidos_db[i].cliente
                  /\ datos[i].fecha = isoformat(pedidos_db[i].fecha_pedido)
                  /\ datos[i].productos =
                         ItemsDeFilas(JoinProductos(pedido_productos, productos_db,
                                                    pedidos_db[i].pedido_id))
           /\ lista_pedidos' = lista_pedidos
           /\ Tablas' = Tablas]_vars

\* export_pedidos has answered and the file holds the order of the table,
\* while the list holds the two records of an imported file instead.
C18_Witness ==
    /\ resp.op = "export_pedidos"
    /\ Len(pedidos_db) = 1
    /\ Len(pedidos_json.datos) = 1
    /\ pedidos_json.datos[1].cliente = pedidos_db[1].cliente
    /\ Len(listar_pedidos(lista_pedidos)) = 2
    /\ listar_pedidos(lista_pedidos)[1].cliente = "Eva"

(***************************************************************************)
(* Rejected requests                                                       *)
(***************************************************************************)
\* A body of POST /products without one of the four fields, or with an empty
\* nombre or descripcion, or with a null precio or stock.
CuerpoIncompleto(body) ==
    \/ \E k \in ClavesProducto : k \notin body.claves
    \/ body.nombre = "" \/ body.descripcion = ""
    \/ body.precio = NoneNum \/ body.stock = None

\* C19: create_product answers such a body with the 400 "Faltan datos
\* obligatorios", inserts no row and leaves the tree as it was.
C19_RechazoEstructurado ==
    [][\A body \in CuerposProducto :
          (create_product(body) /\ CuerpoIncompleto(body)) =>
              /\ resp'.status = 400
              /\ resp'.cuerpo = [message |-> "Faltan datos obligatorios"]
              /\ productos_db' = productos_db
              /\ arbol_productos' = arbol_productos]_vars

ClientesValidacion == {NoneStr, "", "Ana"}
FechasValidacion == {NoneStr, "", "ayer", "2025-12-09T14:00:00"}

CuerposValidacion ==
    {CuerpoPedido(cliente, fecha_pedido, <<>>) :
        cliente \in ClientesValidacion, fecha_pedido \in FechasValidacion}

CreatePedidoValidado ==
    \E body \in CuerposValidacion :
        create_pedido(body) /\ UNCHANGED <<varsProductos, en_curso, arbol_productos, pedidos_json>>

UpdatePedidoValidado ==
    \E pedido_id \in 1..MaxPedidos, body \in CuerposValidacion :
        update_pedido(pedido_id, body) /\ UNCHANGED <<varsProductos, en_curso, arbol_productos, pedidos_json>>

NextValidacion ==
    \/ CreatePedidoValidado
    \/ UpdatePedidoValidado
    \/ GetPedido
    \/ DeletePedido

SpecValidacion == Init /\ [][NextValidacion]_vars

\* C21: for every cliente and fecha_pedido, update_pedido answers 400 exactly
\* when create_pedido answers 400 to the same body.
C21_MismaValidacion ==
    [][\A body \in CuerposValidacion, pedido_id \in 1..MaxPedidos :
          /\ (create_pedido(body) /\ resp'.status = 400)
                 => ENABLED (update_pedido(pedido_id, body) /\ resp'.status = 400)
          /\ (update_pedido(pedido_id, body) /\ resp'.status = 400)
                 => ENABLED (create_pedido(body) /\ resp'.status = 400)]_vars

(***************************************************************************)
(* create_product and get_product_bst on the resident tree (checked under  *)
(* SpecCatalogo)                                                            *)
(***************************************************************************)
\* C22: a create_product that succeeds sends the one INSERT and no SELECT,
\* appends one row to productos, and adds one leaf with the row's identifier
\* to the tree: every node the tree had keeps its product and the children
\* it had, and buscar finds a product with the new identifier.
C22_AltaIncremental ==
    [][\A body \in CuerposProducto :
          (create_product(body) /\ resp'.status = 200) =>
              LET n == Len(arbol_productos.nodos)
                  nuevo == arbol_productos'.nodos[n + 1]
                  fila == productos_db'[Len(productos_db) + 1]
              IN  /\ resp'.sql = 1
                  /\ Len(productos_db') = Len(productos_db) + 1
                  /\ SubSeq(productos_db', 1, Len(productos_db)) = productos_db
                  /\ \A i \in 1..Len(productos_db) : productos_db[i].producto_id # fila.producto_id
                  /\ Len(arbol_productos'.nodos) = n + 1
                  /\ arbol_productos.raiz # Nil => arbol_productos'.raiz = arbol_productos.raiz
                  /\ \A k \in 1..n :
                         /\ arbol_productos'.nodos[k].producto = arbol_productos.nodos[k].producto
                         /\ arbol_productos.nodos[k].izquierda # Nil =>
                                arbol_productos'.nodos[k].izquierda = arbol_productos.nodos[k].izquierda
                         /\ arbol_productos.nodos[k].derecha # Nil =>
                                arbol_productos'.nodos[k].derecha = arbol_productos.nodos[k].derecha
                  /\ nuevo.producto.product_id = fila.producto_id
                  /\ nuevo.producto.nombre = body.nombre
                  /\ nuevo.izquierda = Nil /\ nuevo.derecha = Nil
                  /\ Len(EnOrden(arbol_productos')) = n + 1
                  /\ buscar(arbol_productos', fila.producto_id).product_id = fila.producto_id]_vars

\* create_product has answered 200 for the second row while the tree holds
\* more nodes than the table has rows: the nodes of an earlier lookup stayed.
C22_Witness ==
    /\ resp.op = "create_product" /\ resp.status = 200
    /\ Len(productos_db) = 2
    /\ Len(arbol_productos.nodos) > 2
    /\ buscar(arbol_productos, 2).product_id = 2

\* The nodes of the tree whose price is a Decimal: those get_product_bst
\* inserted from the rows of the table.
NodosDeConsulta(arbol) ==
    {k \in 1..Len(arbol.nodos) : arbol.nodos[k].producto.precio.t = "Decimal"}

\* C26: get_product_bst does not empty the tree and inserts one node for
\* every row of productos, rows the tree already holds included: the tree
\* grows by the number of rows, every earlier node keeps its product and the
\* children it had, and the new nodes carry the rows in the order of the
\* table.
C26_CrecePorConsulta ==
    [][\A product_id \in 1..(MaxProductos + 1) :
          get_product_bst(product_id) =>
              LET n == Len(arbol_productos.nodos)
                  filas == productos_db
              IN  /\ Len(arbol_productos'.nodos) = n + Len(filas)
                  /\ Len(EnOrden(arbol_productos')) = n + Len(filas)
                  /\ arbol_productos.raiz # Nil => arbol_productos'.raiz = arbol_productos.raiz
                  /\ \A k \in 1..n :
                         /\ arbol_productos'.nodos[k].producto = arbol_productos.nodos[k].producto
                         /\ arbol_productos.nodos[k].izquierda # Nil =>
                                arbol_productos'.nodos[k].izquierda = arbol_productos.nodos[k].izquierda
                         /\ arbol_productos.nodos[k].derecha # Nil =>
                                arbol_productos'.nodos[k].derecha = arbol_productos.nodos[k].derecha
                  /\ \A i \in 1..Len(filas) :
                         /\ arbol_productos'.nodos[n + i].producto.product_id = filas[i].producto_id
                         /\ arbol_productos'.nodos[n + i].producto.nombre = filas[i].nombre
                         /\ arbol_productos'.nodos[n + i].producto.precio = filas[i].precio
                  /\ productos_db' = productos_db]_vars

\* Three lookups with one row in the table: the tree holds the node
\* create_product inserted and three more nodes of the same row.
C26_Witness ==
    /\ resp.op = "get_product_bst"
    /\ Len(productos_db) = 1
    /\ Len(arbol_productos.nodos) = 4
    /\ Cardinality(NodosDeConsulta(arbol_productos)) = 3
    /\ \A k \in 1..4 : arbol_productos.nodos[k].producto.product_id = 1

\* C23 as stated: the answer of a create_product that succeeds carries the
\* identifier the table gave the new row.
C23_DevuelveId ==
    (resp.op = "create_product" /\ resp.status = 200) =>
        IF "product_id" \in DOMAIN resp.cuerpo
        THEN resp.cuerpo.product_id = productos_db[Len(productos_db)].producto_id
        ELSE FALSE

\* C23 amended: the answer of a create_product that succeeds is the message
\* "Producto creado exitosamente" and nothing else; the identifier of the
\* new row is in the tree, where buscar finds it.
C23_DevuelveMensaje ==
    (resp.op = "create_product" /\ resp.status = 200) =>
        /\ resp.cuerpo = [message |-> "Producto creado exitosamente"]
        /\ productos_db # <<>>
        /\ buscar(arbol_productos, productos_db[Len(productos_db)].producto_id).product_id
               = productos_db[Len(productos_db)].producto_id

\* create_product has answered 200 for the first row of the table, which the
\* tree holds as its only node.
C23_Witness ==
    /\ resp.op = "create_product" /\ resp.status = 200
    /\ Len(productos_db) = 1
    /\ Len(arbol_productos.nodos) = 1
    /\ arbol_productos.nodos[arbol_productos.raiz].producto.product_id = 1

(***************************************************************************)
(* The listing and the totals of the orders (checked under Spec)           *)
(***************************************************************************)
\* sum of price x quantity over the line items of a listing.
RECURSIVE SumaDeItems(_)
SumaDeItems(items) ==
    IF items = <<>> THEN 0
    ELSE Head(items).precio.v * Head(items).cantidad + SumaDeItems(Tail(items))

\* C24 as stated: every order list_pedidos returns has a total, the sum of
\* price x quantity over its line items.
C24_ListadoConTotal ==
    resp.op = "list_pedidos" =>
        \A i \in 1..Len(resp.cuerpo.pedidos) :
            IF "total" \in DOMAIN resp.cuerpo.pedidos[i]
            THEN resp.cuerpo.pedidos[i].total.v = SumaDeItems(resp.cuerpo.pedidos[i].productos)
            ELSE FALSE

\* C24 amended: list_pedidos returns one dict for every node of the list,
\* from the head to the tail, with the node's pedido_id, cliente, fecha and
\* productos and no other key: no total is computed.
C24_ListadoSinTotal ==
    resp.op = "list_pedidos" =>
        LET pedidos == resp.cuerpo.pedidos IN
        /\ Len(pedidos) = Cardinality(DOMAIN lista_pedidos.nodos)
        /\ \A i \in 1..Len(pedidos) :
               LET nodo == lista_pedidos.nodos[NodoEn(lista_pedidos.nodos, lista_pedidos.cabeza, i)]
               IN  /\ DOMAIN pedidos[i] = {"pedido_id", "cliente", "fecha", "productos"}
                   /\ pedidos[i].pedido_id = nodo.pedido_id
                   /\ pedidos[i].cliente = nodo.cliente
                   /\ pedidos[i].fecha = nodo.fecha
                   /\ pedidos[i].productos = nodo.productos

\* list_pedidos has answered with two orders; the first has the line items
\* of price 10 x 2 and 5 x 1.
C24_Witness ==
    /\ resp.op = "list_pedidos"
    /\ Len(resp.cuerpo.pedidos) = 2
    /\ Len(resp.cuerpo.pedidos[1].productos) = 2
    /\ SumaDeItems(resp.cuerpo.pedidos[1].productos) = 25

\* C25: the total of every order get_pedido returns, from the list or from
\* the tables, is the sum of price x quantity over the line items returned
\* with it: 25 for 10 x 2 and 5 x 1, and 0 for an order without line items.
C25_TotalCalculado ==
    (resp.op = "get_pedido" /\ resp.status = 200) =>
        LET items == resp.cuerpo.productos IN
        /\ resp.cuerpo.total.v = SumaDeItems(items)
        /\ items = <<>> => resp.cuerpo.total.v = 0
        /\ (/\ Len(items) = 2
            /\ items[1].precio.v = 10 /\ items[1].cantidad = 2
            /\ items[2].precio.v = 5 /\ items[2].cantidad = 1) => resp.cuerpo.total.v = 25

\* get_pedido has answered from the list, which holds the order as an
\* earlier get_pedido read it from the tables: 10 x 2 and 5 x 1, total 25.
C25_Witness ==
    /\ resp.op = "get_pedido" /\ resp.status = 200 /\ resp.sql = 0
    /\ resp.cuerpo.cliente = "Ana"
    /\ Len(resp.cuerpo.productos) = 2
    /\ resp.cuerpo.productos[1].precio.v = 10 /\ resp.cuerpo.productos[1].cantidad = 2
    /\ resp.cuerpo.productos[2].precio.v = 5 /\ resp.cuerpo.productos[2].cantidad = 1
    /\ resp.cuerpo.total = [t |-> "float", v |-> 25]

(***************************************************************************)
(* Both structures, one at a time: the tree is given products while the    *)
(* list is empty, and the list is given orders while the tree is empty.    *)
(***************************************************************************)
NextEstructuras ==
    \/ (NextBST /\ lista_pedidos = ListaVacia)
    \/ (NextLista /\ arbol_productos = ArbolVacio)

SpecEstructuras == InitBST /\ [][NextEstructuras]_vars

\* Identifiers asked for: those the structures are given and others.
IdsConsultados == 0..12

\* C27: for an identifier no node of the list has, buscar_pedido returns
\* None, and eliminar_pedido and actualizar_pedido return False and the list
\* as it was, the empty list included; for an identifier no node of the tree
\* has, buscar returns None.
C27_AusenteNoFalla ==
    /\ \A pedido_id \in IdsConsultados :
           NodosCon(lista_pedidos, pedido_id) = {} =>
               /\ buscar_pedido(lista_pedidos, pedido_id) = Nil
               /\ eliminar_pedido(lista_pedidos, pedido_id)
                      = [lista |-> lista_pedidos, ok |-> FALSE]
               /\ \A c \in CambiosLista :
                      actualizar_pedido(lista_pedidos, pedido_id, c.cliente, c.fecha, c.productos)
                          = [lista |-> lista_pedidos, ok |-> FALSE]
    /\ \A product_id \in IdsConsultados :
           product_id \notin Claves(arbol_productos.nodos, arbol_productos.raiz) =>
               buscar(arbol_productos, product_id) = NoProducto

\* The list holds three orders 11 and none with 10: eliminar_pedido(10)
\* walks to the end and returns False.
C27_Witness ==
    /\ IdsPedidos(listar_pedidos(lista_pedidos)) = <<11, 11, 11>>
    /\ ~eliminar_pedido(lista_pedidos, 10).ok
    /\ ~actualizar_pedido(lista_pedidos, 10, "Eva", NoneStr, NoneProductos).ok

(***************************************************************************)
(* get_pedido on an order the list does not hold (checked under Spec)      *)
(***************************************************************************)
\* C28: get_pedido for an order the list does not hold answers 404 and
\* leaves the list alone when pedidos has no such row; otherwise it appends
\* one node for the order after all the nodes of the list, which stay as
\* they were, changes no table, and answers what a lookup answered from
\* that node answers.
C28_LecturaConCarga ==
    [][\A pedido_id \in 1..MaxPedidos :
          (get_pedido(pedido_id) /\ ~EnCache(pedido_id)) =>
              /\ Tablas' = Tablas
              /\ IF ~ExistePedido(pedidos_db, pedido_id)
                 THEN /\ resp'.status = 404
                      /\ lista_pedidos' = lista_pedidos
                 ELSE LET antes == listar_pedidos(lista_pedidos)
                          despues == listar_pedidos(lista_pedidos')
                          nodo == NodoDe(lista_pedidos', pedido_id)
                          fila == FilaDePedido(pedidos_db, pedido_id)
                      IN  /\ resp'.status = 200
                          /\ Len(despues) = Len(antes) + 1
                          /\ SubSeq(despues, 1, Len(antes)) = antes
                          /\ despues[Len(despues)].pedido_id = pedido_id
                          /\ Cardinality(DOMAIN lista_pedidos'.nodos)
                                 = Cardinality(DOMAIN lista_pedidos.nodos) + 1
                          /\ \A n \in DOMAIN lista_pedidos.nodos :
                                 /\ n \in DOMAIN lista_pedidos'.nodos
                                 /\ lista_pedidos'.nodos[n].pedido_id = lista_pedidos.nodos[n].pedido_id
                                 /\ lista_pedidos'.nodos[n].productos = lista_pedidos.nodos[n].productos
                          /\ nodo.cliente = fila.cliente
                          /\ ParesDeCache(nodo.productos) = ParesDeTabla(pedido_productos, pedido_id)
                          /\ \A i \in 1..Len(nodo.productos) : ItemLegible(nodo.productos[i])
                          /\ resp'.cuerpo =
                                 CuerpoDePedido(nodo.pedido_id, nodo.cliente, nodo.fecha,
                                     [i \in 1..Len(nodo.productos) |-> AProducto(nodo.productos[i])])]_vars

\* get_pedido has read order 2 from the tables and appended it after the
\* node of order 1, which the list already held.
C28_Witness ==
    /\ resp.op = "get_pedido" /\ resp.status = 200 /\ resp.sql = 2 /\ resp.arg = 2
    /\ IdsPedidos(listar_pedidos(lista_pedidos)) = <<1, 2>>
    /\ Len(pedidos_db) = 2

(***************************************************************************)
(* The shape of the list                                                    *)
(***************************************************************************)
\* C31: with the requests served one after the other and pedido_id given by
\* AUTO_INCREMENT, after any create_pedido, get_pedido, update_pedido,
\* delete_pedido and list_pedidos (and restarts) no two nodes of the list
\* have the same pedido_id.
C31_SinRepetidos ==
    \A n, m \in DOMAIN lista_pedidos.nodos :
        lista_pedidos.nodos[n].pedido_id = lista_pedidos.nodos[m].pedido_id => n = m

\* After a restart get_pedido read order 2 and then order 1 back into the
\* list: two nodes, two identifiers.
C31_Witness ==
    /\ resp.op = "get_pedido" /\ resp.status = 200
    /\ IdsPedidos(listar_pedidos(lista_pedidos)) = <<2, 1>>
    /\ ultimo_pedido_id = 2

\* The node k links away from a node (None after the end of the chain).
RECURSIVE Paso(_, _, _)
Paso(nodos, actual, k) ==
    IF k = 0 \/ actual = Nil THEN actual
    ELSE Paso(nodos, IF actual \in DOMAIN nodos THEN nodos[actual].siguiente ELSE Nil, k - 1)

\* C32: in every state of the list the links from the head pass through
\* nodes of the list, pass no node twice and reach None after as many links
\* as the list has nodes: every walk from the head ends.
C32_CadenaSimple ==
    LET nodos == lista_pedidos.nodos
        n == Cardinality(DOMAIN nodos)
    IN  /\ \A k \in 0..(n - 1) : Paso(nodos, lista_pedidos.cabeza, k) \in DOMAIN nodos
        /\ \A j, k \in 0..(n - 1) :
               j # k => Paso(nodos, lista_pedidos.cabeza, j) # Paso(nodos, lista_pedidos.cabeza, k)
        /\ Paso(nodos, lista_pedidos.cabeza, n) = Nil
        /\ \A m \in DOMAIN nodos : nodos[m].siguiente \in DOMAIN nodos \cup {Nil}
        /\ \A m \in DOMAIN nodos : nodos[m].siguiente # m

\* After removals and new appends the chain runs through the nodes out of
\* the order of their references: 2, then 1, then 3.
C32_Witness ==
    /\ DOMAIN lista_pedidos.nodos = {1, 2, 3}
    /\ lista_pedidos.cabeza = 2
    /\ lista_pedidos.nodos[2].siguiente = 1
    /\ lista_pedidos.nodos[1].siguiente = 3
    /\ lista_pedidos.nodos[3].siguiente = Nil

(***************************************************************************)
(* update_pedido on an order the list does not hold (checked under Spec)   *)
(***************************************************************************)
\* C34: update_pedido for an order the list does not hold leaves the list
\* as it was and writes the row of pedidos (and the line items given) to
\* the tables; a get_pedido of the order that follows is answered from the
\* tables, with the client and the date of the update and the line items
\* the table holds.
C34_UpdateSinNodo ==
    [][\A pedido_id \in 1..MaxPedidos :
          /\ \A body \in CuerposCambio :
                 (update_pedido(pedido_id, body) /\ ~EnCache(pedido_id)) =>
                     /\ lista_pedidos' = lista_pedidos
                     /\ resp'.status = 200
                     /\ ExistePedido(pedidos_db, pedido_id) =>
                            /\ FilaDePedido(pedidos_db', pedido_id).cliente = body.cliente
                            /\ isoformat(FilaDePedido(pedidos_db', pedido_id).fecha_pedido)
                                   = body.fecha_pedido
                            /\ ParesDeTabla(pedido_productos', pedido_id) =
                                   IF body.productos # <<>>
                                   THEN ParesDePeticion(body.productos)
                                   ELSE ParesDeTabla(pedido_productos, pedido_id)
          /\ (/\ resp.op = "update_pedido" /\ resp.status = 200 /\ resp.arg = pedido_id
              /\ ~EnCache(pedido_id)
              /\ ExistePedido(pedidos_db, pedido_id)
              /\ get_pedido(pedido_id)) =>
                 LET fila == FilaDePedido(pedidos_db, pedido_id) IN
                 /\ resp'.status = 200
                 /\ resp'.sql = 2
                 /\ resp'.cuerpo.cliente = fila.cliente
                 /\ resp'.cuerpo.cliente \in {body.cliente : body \in CuerposCambio}
                 /\ resp'.cuerpo.fecha_pedido = isoformat(fila.fecha_pedido)
                 /\ resp'.cuerpo.fecha_pedido \in {body.fecha_pedido : body \in CuerposCambio}
                 /\ {<<resp'.cuerpo.productos[i].producto_id, resp'.cuerpo.productos[i].cantidad>> :
                         i \in 1..Len(resp'.cuerpo.productos)}
                        = ParesDeTabla(pedido_productos, pedido_id)]_vars

\* update_pedido has answered 200 for order 1, which the tables hold with
\* the client and the line items of the request and the list does not hold;
\* the list holds order 2.
C34_Witness ==
    /\ resp.op = "update_pedido" /\ resp.status = 200 /\ resp.arg = 1
    /\ ~EnCache(1)
    /\ ExistePedido(pedidos_db, 1)
    /\ FilaDePedido(pedidos_db, 1).cliente = "Bob"
    /\ ParesDeTabla(pedido_productos, 1) = {<<2, 3>>, <<1, 1>>}
    /\ IdsPedidos(listar_pedidos(lista_pedidos)) = <<2>>

(***************************************************************************)
(* Two PUT /pedidos/{id} requests in flight at once (SpecConcurrente)      *)
(*                                                                         *)
(* update_pedido is a coroutine of one event loop.  It gives the loop back *)
(* at "await request.json()" (line 459) and nowhere after it: get_connection*)
(* (connection.py:73-101) awaits nothing and the cursor calls block.  Lines *)
(* 460 to 513 of one request therefore run with no line of another request *)
(* in between, and two requests differ only in which one is resumed first. *)
(***************************************************************************)
PeticionesCambio == {"a", "b"}

CuerpoDePeticion(peticion) ==
    IF peticion = "a"
    THEN CuerpoPedido("Bob", "2025-12-09T14:00:00", <<ItemPedido(2, 3), ItemSinCantidad(1)>>)
    ELSE CuerpoPedido("Eva", "2025-12-08T00:00:00", <<ItemPedido(1, 4)>>)

\* Both requests for an order the list holds arrive and wait for their bodies.
RecibirCambios ==
    \E pedido_id \in 1..MaxPedidos :
        /\ en_curso = {}
        /\ ExistePedido(pedidos_db, pedido_id)
        /\ EnCache(pedido_id)
        /\ en_curso' = {[peticion |-> p, pedido_id |-> pedido_id] : p \in PeticionesCambio}
        /\ UNCHANGED <<varsProductos, arbol_productos, resp, lista_pedidos, pedidos_db,
                       pedido_productos, ultimo_pedido_id, pedidos_json>>

\* The loop resumes one of the waiting requests, which runs to its return.
ReanudarCambio ==
    \E r \in en_curso :
        /\ update_pedido(r.pedido_id, CuerpoDePeticion(r.peticion))
        /\ en_curso' = en_curso \ {r}
        /\ UNCHANGED <<varsProductos, arbol_productos, pedidos_json>>

\* Orders with a request in flight are not deleted.
DeletePedidoLibre ==
    \E pedido_id \in 1..MaxPedidos :
        /\ \A r \in en_curso : r.pedido_id # pedido_id
        /\ delete_pedido(pedido_id)
        /\ UNCHANGED <<varsProductos, en_curso, arbol_productos, pedidos_json>>

NextConcurrente ==
    \/ CreatePedido
    \/ GetPedido
    \/ DeletePedidoLibre
    \/ PrimerGetProductBst
    \/ Arranque
    \/ RecibirCambios
    \/ ReanudarCambio

SpecConcurrente == Init /\ [][NextConcurrente]_vars

\* In the step that resumes a waiting request for an order of the list, the
\* node and the row of pedidos take the client and the date of that request.
UnSoloEscritor ==
    [][\A r \in en_curso :
          (/\ EnCache(r.pedido_id)
           /\ update_pedido(r.pedido_id, CuerpoDePeticion(r.peticion))
           /\ en_curso' = en_curso \ {r}) =>
              LET body == CuerpoDePeticion(r.peticion)
                  nodo == NodoDe(lista_pedidos', r.pedido_id)
                  fila == FilaDePedido(pedidos_db', r.pedido_id)
              IN  /\ resp'.status = 200
                  /\ nodo.cliente = body.cliente
                  /\ fila.cliente = body.cliente
                  /\ nodo.fecha = body.fecha_pedido
                  /\ fila.fecha_pedido = fromisoformat(body.fecha_pedido)]_vars

\* C33: when the second of two update_pedido requests for an order of the
\* list, which were in flight together, has run, the node holds the client,
\* the date and the line items of that second request, and the row of
\* pedidos holds its client and its date.
C33_UltimoEscritor ==
    [][\A r \in en_curso :
          (/\ en_curso = {r}
           /\ EnCache(r.pedido_id)
           /\ update_pedido(r.pedido_id, CuerpoDePeticion(r.peticion))
           /\ en_curso' = {}) =>
              LET body == CuerpoDePeticion(r.peticion)
                  nodo == NodoDe(lista_pedidos', r.pedido_id)
                  fila == FilaDePedido(pedidos_db', r.pedido_id)
              IN  /\ nodo.cliente = body.cliente
                  /\ nodo.fecha = body.fecha_pedido
                  /\ ParesDeCache(nodo.productos) = ParesDePeticion(body.productos)
                  /\ fila.cliente = body.cliente
                  /\ fila.fecha_pedido = fromisoformat(body.fecha_pedido)]_vars

====
